---- MODULE Spec2Model ----
(***************************************************************************)
(* Model of the Flag Nation client: the navigation stack manager           *)
(* (NavigationService), the persisted application snapshot                 *)
(* (FlagNationDataService.loadData / migrateData / saveData, clearAllData) *)
(* and the operations that merge the answers of the remote service into it *)
(* (getEvents, getTeams, getRegistrations, getEventDetails,                *)
(* getTeamDetails, createEvent, createTeam, registerForEvent, joinTeam),   *)
(* the session                                                             *)
(* manager (AuthService: token expiry, session storage, login, register,   *)
(* logout, getAuthHeader, getCurrentUser), the login and register screens  *)
(* that persist the session, and the press on a breadcrumb.                *)
(*                                                                         *)
(* Every call runs to completion in one step, except in the specification  *)
(* of calls in flight (SpecRace), where pushToStack,                       *)
(* syncStackToCurrentScreen, getEvents and logout run from one await to    *)
(* the next and `tasks` holds where each call is.                          *)
(*                                                                         *)
(* Representation of JavaScript values:                                    *)
(*  - an absent string-valued property (undefined) is the string NoId;     *)
(*    a === b on two such values is then TLA+ equality, so                 *)
(*    undefined === undefined is TRUE as in JavaScript;                    *)
(*  - a route string is the sequence of its path segments, so that         *)
(*    String.includes is a computation and not an equality;                *)
(*  - a JSON object with optional list/object properties carries the set   *)
(*    "present" of the properties it holds; JSON.stringify drops undefined *)
(*    properties and JSON.parse gives undefined for a missing one, so a    *)
(*    stored object is the saved one with its undefined properties absent; *)
(*  - a JavaScript number or string read from a token payload is a tagged  *)
(*    record (JSVal) so that NaN and undefined compare as they do in JS;   *)
(*  - a token string is held by what JSON.parse(atob(token)) gives for it; *)
(*  - the outcome of a fetch and of an AsyncStorage.setItem is an input of *)
(*    the action that makes the call;                                      *)
(*  - an Event, Team or Registration is held by the properties the         *)
(*    operations compute from the response; a response object is held by   *)
(*    the properties the operations read from it.                          *)
(***************************************************************************)
EXTENDS Integers, Sequences, FiniteSets, TLC

VARIABLES
    appData,    \* AsyncStorage value under the application snapshot key
    authData,   \* AsyncStorage value under FLAG_NATION_AUTH
    usersData,  \* AsyncStorage value under FLAG_NATION_USERS
    listeners,  \* NavigationService.listeners, in registration order
    pending,    \* getCurrentStack().then(listener) promises not yet resolved
    handles,    \* per listener function: unsubscribe closures not yet called
    tasks,      \* asynchronous calls run step by step: where each of them is
    now,        \* Math.floor(Date.now() / 1000)
    lastOp      \* the call that completed last, with what it did

vars == <<appData, authData, usersData, listeners, pending, handles, tasks, now, lastOp>>

(***************************************************************************)
(* Bounds of the model.                                                    *)
(***************************************************************************)
MaxStack == 3
MaxListeners == 2
MaxNavListeners == 1
MaxNow == 3
MaxCalls == 2
MaxTasks == 2

(***************************************************************************)
(* Navigation stack items.                                                 *)
(***************************************************************************)
NoId == "undefined"

TabsRoute == <<"(tabs)">>

TeamRoute(teamId) == <<"team", teamId>>

getDefaultStack ==
    << [type |-> "dashboard", id |-> NoId, name |-> "Dashboard", route |-> TabsRoute] >>

DashboardItem == getDefaultStack[1]

createEventsStackItem ==
    [type |-> "events", id |-> NoId, name |-> "Events", route |-> <<"player", "events">>]

createTeamsStackItem ==
    [type |-> "teams", id |-> NoId, name |-> "Teams", route |-> <<"player", "teams">>]

createTeamStackItem(teamId, teamName) ==
    [type |-> "team", id |-> teamId, name |-> teamName, route |-> TeamRoute(teamId)]

\* An item of type 'event' as a caller of pushToStack may build it.
EventStackItem(eventId, eventName) ==
    [type |-> "event", id |-> eventId, name |-> eventName, route |-> <<"event", eventId>>]

\* The items the navigation specification pushes: the root, an id-less list
\* item, one team under two names, and an event whose id equals the team's id.
PushItems ==
    { DashboardItem, createEventsStackItem,
      createTeamStackItem("A", "Alpha"), createTeamStackItem("A", "Alpha FC"),
      EventStackItem("A", "Cup") }

\* The items the subscription specification pushes.
SubItems == { createTeamsStackItem, createTeamStackItem("B", "Bravo") }

\* The (currentRoute, screenId) pairs syncStackToCurrentScreen is called with:
\* a screen without id, the team screen as TeamDetailScreen calls it, a team
\* that is not on the stack, and a route no item has, with and without an id.
SyncCalls ==
    { <<TabsRoute, NoId>>, <<createEventsStackItem.route, NoId>>,
      <<TeamRoute("A"), "A">>, <<TeamRoute("A"), NoId>>, <<TeamRoute("B"), "B">>,
      <<(<<"settings">>), NoId>>, <<(<<"settings">>), "A">> }

PopCounts == (0 - 1) .. (MaxStack + 1)

\* The counts the subscription specification pops.
SubPopCounts == {1, 2}

Fns == {"l1", "l2"}

(***************************************************************************)
(* JavaScript array helpers.                                               *)
(***************************************************************************)
Min(a, b) == IF a < b THEN a ELSE b

Max(a, b) == IF a > b THEN a ELSE b

\* Array.prototype.slice(begin, end): a negative index counts from the end,
\* both are clamped to 0..length; indices are 0-based, end exclusive.
Slice(s, begin, end) ==
    LET len == Len(s)
        k == IF begin < 0 THEN Max(len + begin, 0) ELSE Min(begin, len)
        final == IF end < 0 THEN Max(len + end, 0) ELSE Min(end, len)
    IN  SubSeq(s, k + 1, final)

\* Array.prototype.findIndex, given the value of the predicate at each
\* element in order: 0-based index of the first match, -1 if none.
FindIndex(hits) ==
    IF \E i \in 1..Len(hits) : hits[i]
    THEN (CHOOSE i \in 1..Len(hits) : hits[i] /\ \A j \in 1..(i - 1) : ~hits[j]) - 1
    ELSE 0 - 1

\* String.prototype.includes on a route, at the granularity of path segments.
Includes(route, part) == \E k \in 1..Len(route) : route[k] = part

(***************************************************************************)
(* JavaScript values of a token payload, and tokens.                       *)
(***************************************************************************)
Undef == [t |-> "undefined", n |-> 0, s |-> ""]

NaN == [t |-> "NaN", n |-> 0, s |-> ""]

Num(k) == [t |-> "number", n |-> k, s |-> ""]

Str(x) == [t |-> "string", n |-> 0, s |-> x]

\* ToBoolean: undefined, NaN, 0 and the empty string are falsy.
Truthy(v) ==
    \/ v.t = "number" /\ v.n # 0
    \/ v.t = "string" /\ v.s # ""

\* a || b
Or(a, b) == IF Truthy(a) THEN a ELSE b

\* a < b for a number b: undefined converts to NaN, and NaN < b is false.
LessThan(a, b) == a.t = "number" /\ a.n < b

\* new Date(s).getTime() / 1000: the epoch seconds of an ISO date string,
\* NaN for a string that is no date.
DateSeconds(str) ==
    CASE str = "1970-01-01T00:00:01Z" -> Num(1)
      [] str = "1970-01-01T00:00:02Z" -> Num(2)
      [] str = "1970-01-01T00:00:03Z" -> Num(3)
      [] OTHER -> NaN

\* A payload with none of the properties the program reads.
NoPayload ==
    [exp |-> Undef, expires_at |-> Undef, user_id |-> NoId, userId |-> NoId,
     username |-> NoId]

\* A token is the base64 text of a JSON object, the base64 text of the JSON
\* value null, or a string atob or JSON.parse rejects.
ObjectToken(payload) == [kind |-> "object", payload |-> payload]

NullToken == [kind |-> "null", payload |-> NoPayload]

InvalidToken == [kind |-> "invalid", payload |-> NoPayload]

NoToken == [kind |-> "undefined", payload |-> NoPayload]

ExpiryValues ==
    { Undef, Num(0), Num(1), Num(2), Str("1970-01-01T00:00:02Z"), Str("soon") }

Tokens ==
    { ObjectToken([NoPayload EXCEPT !.exp = e, !.expires_at = x]) :
          e \in ExpiryValues, x \in ExpiryValues }
        \cup {NullToken, InvalidToken}

\* `payload.exp || payload.expires_at` compared with `now`
expiredByPayload(payload, nowSeconds) ==
    LET expiration == Or(payload.exp, payload.expires_at)
    IN  IF expiration.t = "string"
        THEN LessThan(DateSeconds(expiration.s), nowSeconds)
        ELSE LessThan(expiration, nowSeconds)

\* JSON.parse(atob(token)) throws for an invalid token, and reading a
\* property of null throws: both end in the catch clause.
isTokenExpired(token, nowSeconds) ==
    IF token.kind = "object"
    THEN expiredByPayload(token.payload, nowSeconds)
    ELSE TRUE

(***************************************************************************)
(* Persisted session (AuthService.loadAuthState).                          *)
(***************************************************************************)
\* A User, as far as the program reads it: id and username, either possibly
\* absent. An absent user reads as absent properties (user?.id is undefined).
NoUser == [id |-> NoId, username |-> NoId]

Unauthenticated == [isAuthenticated |-> FALSE, user |-> NoUser, token |-> NoToken]

\* A storage value: nothing stored ("none"), a text JSON.parse rejects
\* ("corrupt"), a read that rejects ("unreadable"), or the text of an object
\* ("json"); value is the object, or the one the text was written from.
NoAuthData == [kind |-> "none", value |-> Unauthenticated]

\* The cached users (AuthService.getLocalUsers): nothing stored.
NoUsersData == [kind |-> "none", value |-> <<>>]

loadAuthStateLenient ==
    IF authData.kind # "none"
    THEN [user |-> authData.value.user,
          isAuthenticated |-> authData.value.isAuthenticated,
          token |-> authData.value.token]
    ELSE Unauthenticated

\* Only a stored text that JSON.parse accepts ("json") is read; a read or a
\* parse that throws ends in the catch clause.
loadAuthState ==
    IF authData.kind = "json"
    THEN [user |-> authData.value.user,
          isAuthenticated |-> authData.value.isAuthenticated,
          token |-> authData.value.token]
    ELSE Unauthenticated

(***************************************************************************)
(* Persisted application snapshot (FlagNationDataService).                 *)
(***************************************************************************)
ListFields == {"events", "teams", "players", "registrations", "auth", "navigationStack"}

\* The entities of the snapshot, as far as the program and the properties
\* read them; an absent entity (undefined) has all its properties absent.
Event(id, name) == [id |-> id, name |-> name]

NoEvent == Event(NoId, NoId)

Team(id, name, description, parentTeamId) ==
    [id |-> id, name |-> name, description |-> description, parentTeamId |-> parentTeamId]

NoTeam == Team(NoId, NoId, NoId, NoId)

Registration(id, type, eventId, teamId, status) ==
    [id |-> id, type |-> type, eventId |-> eventId, teamId |-> teamId, status |-> status]

NoRegistration == Registration(NoId, NoId, NoId, NoId, NoId)

\* Field values of an object none of whose optional properties is set.
BlankAppState ==
    [present |-> {},
     events |-> <<>>, teams |-> <<>>, players |-> <<>>, registrations |-> <<>>,
     currentEvent |-> NoEvent, currentTeam |-> NoTeam,
     auth |-> Unauthenticated, userId |-> NoId, userRole |-> "undefined",
     navigationStack |-> <<>>]

NoAppData == [kind |-> "none", value |-> BlankAppState]

CorruptAppData == [kind |-> "corrupt", value |-> BlankAppState]

\* A snapshot written by an older version: it has events and a role, and
\* no navigationStack property.
LegacyAppData ==
    [kind |-> "json",
     value |-> [BlankAppState EXCEPT !.present = {"events", "teams"},
                                     !.events = <<Event("E1", "Cup")>>,
                                     !.currentEvent = Event("E1", "Cup"),
                                     !.userRole = "organizer"]]

\* a || b for a list or object property a of a parsed object
OrDefault(obj, field, default) ==
    IF field \in obj.present THEN obj[field] ELSE default

\* A migrateData that resets the role.
migrateDataResetsRole(appState) ==
    LET authState == OrDefault(appState, "auth", Unauthenticated)
    IN  [present |-> ListFields,
         events |-> OrDefault(appState, "events", <<>>),
         teams |-> OrDefault(appState, "teams", <<>>),
         players |-> OrDefault(appState, "players", <<>>),
         registrations |-> OrDefault(appState, "registrations", <<>>),
         currentEvent |-> appState.currentEvent,
         currentTeam |-> appState.currentTeam,
         auth |-> authState,
         userId |-> IF authState.user.id # NoId THEN authState.user.id ELSE appState.userId,
         userRole |-> "player",
         navigationStack |-> OrDefault(appState, "navigationStack", getDefaultStack)]

migrateData(appState) ==
    LET authState == OrDefault(appState, "auth", Unauthenticated)
    IN  [present |-> ListFields,
         events |-> OrDefault(appState, "events", <<>>),
         teams |-> OrDefault(appState, "teams", <<>>),
         players |-> OrDefault(appState, "players", <<>>),
         registrations |-> OrDefault(appState, "registrations", <<>>),
         currentEvent |-> appState.currentEvent,
         currentTeam |-> appState.currentTeam,
         auth |-> authState,
         userId |-> IF authState.user.id # NoId THEN authState.user.id ELSE appState.userId,
         userRole |-> IF appState.userRole = "undefined" THEN "player" ELSE appState.userRole,
         \* an empty array is truthy: [] || default is []
         navigationStack |-> OrDefault(appState, "navigationStack", getDefaultStack)]

\* loadData as a function of the storage value it reads: a stored object is
\* migrated; nothing stored, or a value JSON.parse rejects, gives the default
\* snapshot with the persisted session.
loadDataFrom(data) ==
    IF data.kind = "json"
    THEN migrateData(data.value)
    ELSE LET authState == loadAuthState
         IN  [present |-> ListFields,
              events |-> <<>>, teams |-> <<>>, players |-> <<>>, registrations |-> <<>>,
              currentEvent |-> NoEvent, currentTeam |-> NoTeam,
              auth |-> authState,
              userId |-> authState.user.id,
              userRole |-> "player",
              navigationStack |-> getDefaultStack]

loadData == loadDataFrom(appData)

\* The storage value saveData(appState) leaves under the snapshot key.
saveData(appState) == [kind |-> "json", value |-> appState]

(***************************************************************************)
(* NavigationService: load and save.                                       *)
(***************************************************************************)
\* A loadNavigationStack that returns the stored stack even when it is empty.
StackOfKeepsEmpty(data) == loadDataFrom(data).navigationStack

\* loadNavigationStack as a function of the storage value it reads.
StackOf(data) ==
    LET appState == loadDataFrom(data)
    IN  IF Len(appState.navigationStack) > 0
        THEN appState.navigationStack
        ELSE getDefaultStack

loadNavigationStack == StackOf(appData)

\* A saveNavigationStack that writes a snapshot holding the stack alone,
\* without reading the stored one first.
saveNavigationStackAlone(stack) ==
    saveData([BlankAppState EXCEPT !.navigationStack = stack])

\* The storage value saveNavigationStack(stack) writes.
saveNavigationStack(stack) ==
    saveData([loadData EXCEPT !.navigationStack = stack])

\* A notifyListeners that calls the listeners last registered first.
notifyListenersReversed(data) ==
    [i \in 1..Len(listeners) |->
        [fn |-> listeners[Len(listeners) + 1 - i], stack |-> StackOf(data)]]

\* notifyListeners after the snapshot key holds `data`: every registered
\* listener, in registration order, is called with the stack loaded from it.
notifyListeners(data) ==
    [i \in 1..Len(listeners) |-> [fn |-> listeners[i], stack |-> StackOf(data)]]

(***************************************************************************)
(* The record of the last completed call.                                  *)
(***************************************************************************)
\* What login and register resolve with.
NoResult == [user |-> NoUser, token |-> NoToken]

\* What getAuthHeader resolves with: {} or {Authorization: scheme + ' ' + token}.
NoHeader == [set |-> FALSE, scheme |-> "", token |-> NoToken]

Bearer(token) == [set |-> TRUE, scheme |-> "Bearer", token |-> token]

\* A JSON object of a response of the remote service, with the properties
\* the synchronizer reads; NoObject has none of them.
NoObject ==
    [id |-> NoId, eventId |-> NoId, event_id |-> NoId, teamId |-> NoId, team_id |-> NoId,
     registrationId |-> NoId, registration_id |-> NoId, name |-> NoId,
     description |-> NoId, parentTeamId |-> NoId, parent_team_id |-> NoId,
     type |-> NoId, status |-> NoId]

\* What a synchronizer operation sends: the path parameter and the
\* properties of the JSON body.
NoRequest ==
    [sent |-> FALSE, id |-> NoId, name |-> NoId, description |-> NoId,
     parentId |-> NoId, userId |-> NoId]

\* The outcome of a fetch: "network" (fetch rejects), "http" (a response that
\* is not ok) or "ok" with the JSON object it carries: the user and token of
\* a sign-in response, the object (body) or the array (list) of a
\* synchronizer response. nested tells whether the object has the property
\* the caller reads first (user, event, team, events, teams, registrations)
\* or is the value itself.
NoRemote ==
    [kind |-> "none", user |-> NoUser, token |-> NoToken, nested |-> FALSE,
     body |-> NoObject, list |-> <<>>]

\* One input/output step of a call: the fetch, the read of the cached users,
\* or an AsyncStorage.setItem on the session key ("auth") or the snapshot key
\* ("app"), with whether it succeeded.
Fetch(remote) == [io |-> "fetch", key |-> "remote", ok |-> remote.kind = "ok"]

ReadUsers == [io |-> "getItem", key |-> "users", ok |-> TRUE]

SetItem(key, ok) == [io |-> "setItem", key |-> key, ok |-> ok]

\* threw is "none" for a call that returned and the error's name otherwise.
NoCall ==
    [op |-> "init", item |-> DashboardItem, n |-> 0, route |-> <<>>, screenId |-> NoId,
     fn |-> "none", loaded |-> <<>>, returned |-> <<>>, wrote |-> FALSE,
     cleanup |-> FALSE, calls |-> <<>>, token |-> NoToken, expired |-> FALSE,
     steps |-> <<>>, threw |-> "none", username |-> NoId, password |-> NoId,
     remote |-> NoRemote, result |-> NoResult, header |-> NoHeader,
     session |-> Unauthenticated, events |-> <<>>, seq |-> 0,
     form |-> "none", request |-> NoRequest, event |-> NoEvent, team |-> NoTeam,
     registration |-> NoRegistration, teams |-> <<>>, registrations |-> <<>>,
     index |-> 0, backs |-> 0]

\* The record a call starts from: seq is the number of counted calls made so
\* far.
Call == [NoCall EXCEPT !.seq = lastOp.seq]

\* The record a navigation mutation, a synchronizer operation or
\* getCurrentUser starts from: it counts itself, up to MaxCalls.
CountedCall == [NoCall EXCEPT !.seq = Min(lastOp.seq + 1, MaxCalls)]

(***************************************************************************)
(* NavigationService: the stack computations of the mutating calls.        *)
(***************************************************************************)
\* The findIndex predicate of pushToStack: type and id both strictly equal.
MatchesPushedIdRequired(stackItem, item) ==
    stackItem.type = item.type /\ stackItem.id = item.id /\ item.id # NoId

MatchesPushed(stackItem, item) ==
    stackItem.type = item.type /\ stackItem.id = item.id

existingIndex(currentStack, item) ==
    FindIndex([i \in 1..Len(currentStack) |-> MatchesPushed(currentStack[i], item)])

\* A pushToStack that appends without looking for the item.
pushNewStackAppends(currentStack, item) == Append(currentStack, item)

pushNewStackKeepsPushed(currentStack, item) ==
    IF existingIndex(currentStack, item) >= 0
    THEN Append(Slice(currentStack, 0, existingIndex(currentStack, item)), item)
    ELSE Append(currentStack, item)

pushNewStack(currentStack, item) ==
    IF existingIndex(currentStack, item) >= 0
    THEN Slice(currentStack, 0, existingIndex(currentStack, item) + 1)
    ELSE Append(currentStack, item)

\* "Don't pop if we're at the root (dashboard)"
atRootEmptyOnly(currentStack) == Len(currentStack) < 1

atRoot(currentStack) == Len(currentStack) <= 1

popNewStack(currentStack) == Slice(currentStack, 0, 0 - 1)

actualCount(currentStack, count) == Min(count, Len(currentStack) - 1)

popMultipleNewStack(currentStack, count) ==
    Slice(currentStack, 0, 0 - actualCount(currentStack, count))

\* The findIndex predicate of syncStackToCurrentScreen; an absent (or empty)
\* screenId is falsy and selects the route-only comparison.
MatchesScreen(item, currentRoute, screenId) ==
    IF screenId # NoId
    THEN item.route = currentRoute \/ (item.id = screenId /\ Includes(item.route, screenId))
    ELSE item.route = currentRoute

targetIndex(currentStack, currentRoute, screenId) ==
    FindIndex([i \in 1..Len(currentStack) |->
                  MatchesScreen(currentStack[i], currentRoute, screenId)])

needsTruncationAnyMatch(currentStack, currentRoute, screenId) ==
    targetIndex(currentStack, currentRoute, screenId) >= 0

needsTruncation(currentStack, currentRoute, screenId) ==
    /\ targetIndex(currentStack, currentRoute, screenId) >= 0
    /\ targetIndex(currentStack, currentRoute, screenId) < Len(currentStack) - 1

syncNewStackDropsTarget(currentStack, currentRoute, screenId) ==
    Slice(currentStack, 0, targetIndex(currentStack, currentRoute, screenId))

syncNewStack(currentStack, currentRoute, screenId) ==
    Slice(currentStack, 0, targetIndex(currentStack, currentRoute, screenId) + 1)

(***************************************************************************)
(* NavigationService: the calls, each run to completion.                   *)
(***************************************************************************)
\* What a mutating call does once it has its new stack: save, then notify.
SaveAndNotify(call, newStack) ==
    /\ appData' = saveNavigationStack(newStack)
    /\ lastOp' = [call EXCEPT !.returned = newStack, !.wrote = TRUE,
                              !.steps = <<SetItem("app", TRUE)>>,
                              !.calls = notifyListeners(saveNavigationStack(newStack))]
    /\ UNCHANGED <<authData, usersData, listeners, pending, handles, tasks, now>>

\* An early return: nothing is written and nobody is called.
ReturnOnly(call, stack) ==
    /\ lastOp' = [call EXCEPT !.returned = stack]
    /\ UNCHANGED <<appData, authData, usersData, listeners, pending, handles, tasks, now>>

\* The call rejects: what it had written stays, nothing more is done.
Throws(call, error) ==
    /\ lastOp' = [call EXCEPT !.threw = error]
    /\ UNCHANGED <<appData, authData, usersData, listeners, pending, handles, tasks, now>>

\* await saveNavigationStack(newStack); await notifyListeners(); return newStack
\* where AsyncStorage.setItem succeeds (writeOk) or rejects: saveData and
\* saveNavigationStack log the error and throw it again.
SaveThenNotifySwallowsError(call, newStack, writeOk) ==
    IF writeOk
    THEN SaveAndNotify(call, newStack)
    ELSE /\ lastOp' = [call EXCEPT !.returned = newStack,
                                   !.steps = <<SetItem("app", FALSE)>>,
                                   !.calls = notifyListeners(appData)]
         /\ UNCHANGED <<appData, authData, usersData, listeners, pending, handles, tasks, now>>

SaveThenNotify(call, newStack, writeOk) ==
    IF writeOk
    THEN SaveAndNotify(call, newStack)
    ELSE Throws([call EXCEPT !.steps = <<SetItem("app", FALSE)>>], "write")

PushToStack(item, writeOk) ==
    LET currentStack == loadNavigationStack
        call == [CountedCall EXCEPT !.op = "pushToStack", !.item = item, !.loaded = currentStack]
    IN  /\ Len(pushNewStack(currentStack, item)) <= MaxStack
        /\ SaveThenNotify(call, pushNewStack(currentStack, item), writeOk)

PopFromStack(writeOk) ==
    LET currentStack == loadNavigationStack
        call == [CountedCall EXCEPT !.op = "popFromStack", !.loaded = currentStack]
    IN  IF atRoot(currentStack)
        THEN ReturnOnly(call, currentStack)
        ELSE SaveThenNotify([call EXCEPT !.cleanup = TRUE], popNewStack(currentStack),
                            writeOk)

\* With a negative count, newCurrentItem is read past the end of the stack
\* and clearAssociatedData throws on newCurrentItem.type before its try block.
PopMultipleFromStack(count, writeOk) ==
    LET currentStack == loadNavigationStack
        call == [CountedCall EXCEPT !.op = "popMultipleFromStack", !.n = count,
                               !.loaded = currentStack]
    IN  IF atRoot(currentStack)
        THEN ReturnOnly(call, currentStack)
        ELSE IF actualCount(currentStack, count) < 0
             THEN Throws(call, "TypeError")
             ELSE SaveThenNotify([call EXCEPT !.cleanup = TRUE],
                                 popMultipleNewStack(currentStack, count), writeOk)

ClearStack(writeOk) ==
    LET call == [CountedCall EXCEPT !.op = "clearStack", !.loaded = loadNavigationStack]
    IN  SaveThenNotify(call, getDefaultStack, writeOk)

SyncStackToCurrentScreen(currentRoute, screenId, writeOk) ==
    LET currentStack == loadNavigationStack
        call == [CountedCall EXCEPT !.op = "syncStackToCurrentScreen", !.route = currentRoute,
                               !.screenId = screenId, !.loaded = currentStack]
    IN  IF needsTruncation(currentStack, currentRoute, screenId)
        THEN SaveThenNotify([call EXCEPT !.cleanup = TRUE],
                            syncNewStack(currentStack, currentRoute, screenId), writeOk)
        ELSE ReturnOnly(call, currentStack)

(***************************************************************************)
(* Breadcrumb: a press on one of the places displayed.                     *)
(***************************************************************************)
stepsBackToPressed(navigationStack, index) == Len(navigationStack) - index

\* const stepsBack = navigationStack.length - 1 - index
stepsBack(navigationStack, index) == Len(navigationStack) - 1 - index

\* handleBreadcrumbPress(item, index) on the breadcrumb at `index` (from 0)
\* of the stack the hook holds, which is the stack of the last notification:
\* the persisted one, while calls run one at a time. The breadcrumbs are
\* rendered for a stack of more than one place. backs counts the calls of
\* router.back(); a popMultipleFromStack that throws ends the handler.
HandleBreadcrumbPress(index, writeOk) ==
    LET navigationStack == loadNavigationStack
        currentStack == loadNavigationStack
        count == stepsBack(navigationStack, index)
        call == [CountedCall EXCEPT !.op = "handleBreadcrumbPress", !.index = index,
                                    !.loaded = navigationStack]
        popped == [call EXCEPT !.n = count, !.backs = count]
    IN  /\ Len(navigationStack) > 1
        /\ index < Len(navigationStack)
        /\ IF index < Len(navigationStack) - 1
           THEN IF atRoot(currentStack)
                THEN ReturnOnly(popped, currentStack)
                ELSE IF actualCount(currentStack, count) < 0
                     THEN Throws([call EXCEPT !.n = count], "TypeError")
                     ELSE IF writeOk
                          THEN SaveThenNotify([popped EXCEPT !.cleanup = TRUE],
                                              popMultipleNewStack(currentStack, count), TRUE)
                          ELSE SaveThenNotify([call EXCEPT !.n = count, !.cleanup = TRUE],
                                              popMultipleNewStack(currentStack, count), FALSE)
           ELSE ReturnOnly(call, navigationStack)

(***************************************************************************)
(* NavigationService: subscriptions.                                       *)
(***************************************************************************)
Total(bag) == bag["l1"] + bag["l2"]

\* The unsubscribe closure: this.listeners.filter(l => l !== listener)
withoutListener(registered, listener) ==
    SelectSeq(registered, LAMBDA l : l # listener)

\* subscribe(listener): the registration is synchronous, the first delivery
\* waits for getCurrentStack() to resolve.
Subscribe(listener, cap) ==
    /\ Len(listeners) < cap
    /\ Total(handles) < cap
    /\ Len(pending) < cap
    /\ listeners' = Append(listeners, listener)
    /\ pending' = Append(pending, listener)
    /\ handles' = [handles EXCEPT ![listener] = @ + 1]
    /\ lastOp' = [Call EXCEPT !.op = "subscribe", !.fn = listener]
    /\ UNCHANGED <<appData, authData, usersData, tasks, now>>

\* getCurrentStack().then(stack => listener(stack)) of the oldest subscribe
\* call resolves: the listener is called, whether or not it is still
\* registered, with the stack the storage holds when the read completes.
DeliverCurrentStack ==
    /\ pending # <<>>
    /\ pending' = Tail(pending)
    /\ lastOp' = [Call EXCEPT !.op = "deliver", !.fn = Head(pending),
                                !.loaded = loadNavigationStack,
                                !.calls = << [fn |-> Head(pending),
                                              stack |-> loadNavigationStack] >>]
    /\ UNCHANGED <<appData, authData, usersData, listeners, handles, tasks, now>>

\* One of the unsubscribe functions subscribe(listener) returned is called.
Unsubscribe(listener) ==
    /\ handles[listener] > 0
    /\ handles' = [handles EXCEPT ![listener] = @ - 1]
    /\ listeners' = withoutListener(listeners, listener)
    /\ lastOp' = [Call EXCEPT !.op = "unsubscribe", !.fn = listener]
    /\ UNCHANGED <<appData, authData, usersData, pending, tasks, now>>

(***************************************************************************)
(* The navigation specification.                                           *)
(***************************************************************************)
InitRest ==
    /\ authData = NoAuthData
    /\ usersData = NoUsersData
    /\ listeners = <<>>
    /\ pending = <<>>
    /\ handles = [l \in Fns |-> 0]
    /\ tasks = {}
    /\ now = 1
    /\ lastOp = NoCall

Init ==
    /\ appData \in {NoAppData, CorruptAppData, LegacyAppData}
    /\ InitRest

Next ==
    \/ \E item \in PushItems : PushToStack(item, TRUE)
    \/ PopFromStack(TRUE)
    \/ \E count \in PopCounts : PopMultipleFromStack(count, TRUE)
    \/ ClearStack(TRUE)
    \/ \E call \in SyncCalls : SyncStackToCurrentScreen(call[1], call[2], TRUE)
    \/ \E index \in 0..(MaxStack - 1) : HandleBreadcrumbPress(index, TRUE)
    \/ Subscribe("l1", MaxNavListeners)
    \/ DeliverCurrentStack
    \/ Unsubscribe("l1")

Spec == Init /\ [][Next]_vars

(***************************************************************************)
(* The subscription specification: every listener function, registered any *)
(* number of times up to the bound, over a small set of places.            *)
(***************************************************************************)
InitSub ==
    /\ appData = NoAppData
    /\ InitRest

NextSub ==
    \/ \E item \in SubItems : PushToStack(item, TRUE)
    \/ PopFromStack(TRUE)
    \/ \E count \in SubPopCounts : PopMultipleFromStack(count, TRUE)
    \/ ClearStack(TRUE)
    \/ SyncStackToCurrentScreen(TabsRoute, NoId, TRUE)
    \/ \E listener \in Fns : Subscribe(listener, MaxListeners)
    \/ DeliverCurrentStack
    \/ \E listener \in Fns : Unsubscribe(listener)

SpecSub == InitSub /\ [][NextSub]_vars

(***************************************************************************)
(* The token specification: isTokenExpired applied to every token of       *)
(* Tokens at every time of the clock.                                      *)
(***************************************************************************)
Tick ==
    /\ now < MaxNow
    /\ now' = now + 1
    /\ UNCHANGED <<appData, authData, usersData, listeners, pending, handles, tasks, lastOp>>

IsTokenExpired(token) ==
    /\ lastOp' = [Call EXCEPT !.op = "isTokenExpired", !.token = token, !.n = now,
                                !.expired = isTokenExpired(token, now)]
    /\ UNCHANGED <<appData, authData, usersData, listeners, pending, handles, tasks, now>>

InitAuth ==
    /\ appData = NoAppData
    /\ InitRest

NextAuth ==
    \/ Tick
    \/ \E token \in Tokens : IsTokenExpired(token)

SpecAuth == InitAuth /\ [][NextAuth]_vars

(***************************************************************************)
(* AuthService: login, register, logout, and the screens that persist the  *)
(* session they return.                                                    *)
(***************************************************************************)
\* 14 * 24 * 60 * 60
FourteenDays == 1209600

\* Strings are written as JSON writes them: "\\u674e" is the string of the
\* one character U+674E. Latin1 holds of a string all of whose characters
\* are at most U+00FF, the strings btoa accepts.
Latin1(str) == str # "\\u674e"

Usernames == {"alice", "bob", "\\u674e"}

Passwords == {"secret", "anything"}

User(id, username) == [id |-> id, username |-> username]

\* Values of FLAG_NATION_USERS: nothing stored, a string JSON.parse rejects,
\* a read that rejects, and an array with two users of the same username.
CorruptUsersData == [kind |-> "corrupt", value |-> <<>>]

UnreadableUsersData == [kind |-> "unreadable", value |-> <<>>]

CachedUsersData ==
    [kind |-> "json",
     value |-> << User("u1", "alice"), User("u2", "\\u674e"), User("u3", "alice") >>]

getLocalUsers == IF usersData.kind = "json" THEN usersData.value ELSE <<>>

\* The responses of the remote service to sign-in and to user creation.
RemoteUsers == { User("r1", "alice"), NoUser }

RemoteTokens ==
    { ObjectToken([NoPayload EXCEPT !.user_id = "r1", !.exp = Num(2)]),
      ObjectToken([NoPayload EXCEPT !.user_id = "r1", !.exp = Num(0)]),
      NoToken }

NetworkError == [NoRemote EXCEPT !.kind = "network"]

HttpError == [NoRemote EXCEPT !.kind = "http"]

\* A 2xx response whose JSON object has the token (if any) and either a
\* `user` property (nested) or the user's properties themselves.
OkResponses ==
    { [kind |-> "ok", user |-> u, token |-> t, nested |-> b] :
          u \in RemoteUsers, t \in RemoteTokens, b \in BOOLEAN }

RemoteOutcomes == {NetworkError, HttpError} \cup OkResponses

\* response.user of a response object
responseUser(remote) == IF remote.nested THEN remote.user ELSE NoUser

\* The payload of the token login makes for a cached user.
mockPayload(user, nowSeconds) ==
    [NoPayload EXCEPT !.user_id = user.id, !.username = user.username,
                      !.exp = Num(nowSeconds + FourteenDays)]

\* btoa throws InvalidCharacterError on a character above U+00FF;
\* JSON.stringify writes such characters as they are.
btoaThrows(payload) == ~Latin1(payload.user_id) \/ ~Latin1(payload.username)

\* decodeTokenPayload(token): the object, or null (here NoPayload) when atob
\* or JSON.parse throws.
decodeTokenPayload(token) == IF token.kind = "object" THEN token.payload ELSE NoPayload

\* existingUsers.find(u => u.username === credentials.username), as an index.
findUser(users, username) ==
    FindIndex([i \in 1..Len(users) |-> users[i].username = username])

\* The catch clause of login: the cached users are read and searched.
loginFallbackAnyUser(username, remote, nowSeconds) ==
    LET users == getLocalUsers
        steps == <<Fetch(remote), ReadUsers>>
    IN  IF Len(users) = 0
        THEN [threw |-> "Invalid username or password", result |-> NoResult,
              steps |-> steps]
        ELSE [threw |-> "none", steps |-> steps,
              result |-> [user |-> users[1],
                          token |-> ObjectToken(mockPayload(users[1], nowSeconds))]]

loginFallback(username, remote, nowSeconds) ==
    LET users == getLocalUsers
        found == findUser(users, username)
        steps == <<Fetch(remote), ReadUsers>>
    IN  IF found < 0
        THEN [threw |-> "Invalid username or password", result |-> NoResult,
              steps |-> steps]
        ELSE IF btoaThrows(mockPayload(users[found + 1], nowSeconds))
             THEN [threw |-> "InvalidCharacterError", result |-> NoResult, steps |-> steps]
             ELSE [threw |-> "none", steps |-> steps,
                   result |-> [user |-> users[found + 1],
                               token |-> ObjectToken(mockPayload(users[found + 1],
                                                                 nowSeconds))]]

\* login(credentials) with the outcome of its request: what it throws, what
\* it resolves with, and its input/output steps in order.
loginLocalFirst(username, remote, nowSeconds) ==
    IF findUser(getLocalUsers, username) >= 0
    THEN loginFallback(username, remote, nowSeconds)
    ELSE [threw |-> "none", steps |-> <<ReadUsers, Fetch(remote)>>,
          result |-> [user |-> responseUser(remote), token |-> remote.token]]

login(username, remote, nowSeconds) ==
    IF remote.kind = "ok"
    THEN [threw |-> "none", steps |-> <<Fetch(remote)>>,
          result |-> [user |-> responseUser(remote), token |-> remote.token]]
    ELSE loginFallback(username, remote, nowSeconds)

\* register(userData) with the outcome of its request; the user object it
\* builds before the request is not used.
registerWithFallback(username, remote, nowSeconds) ==
    IF remote.kind = "ok"
    THEN [threw |-> "none", steps |-> <<Fetch(remote)>>,
          result |-> [user |-> remote.user, token |-> remote.token]]
    ELSE [threw |-> "none", steps |-> <<Fetch(remote)>>,
          result |-> [user |-> User("local", username), token |-> NoToken]]

register(username, remote, nowSeconds) ==
    IF remote.kind = "ok"
    THEN [threw |-> "none", steps |-> <<Fetch(remote)>>,
          result |-> [user |-> remote.user, token |-> remote.token]]
    ELSE [threw |-> remote.kind, steps |-> <<Fetch(remote)>>, result |-> NoResult]

\* The storage value saveAuthState(authState) leaves under the session key.
saveAuthState(authState) == [kind |-> "json", value |-> authState]

Authenticated(result) ==
    [isAuthenticated |-> TRUE, user |-> result.user, token |-> result.token]

\* A session as handleLogin saves it after a sign-in the remote service
\* answered with a user and a token.
RemoteSession ==
    Authenticated([user |-> User("r1", "alice"),
                   token |-> ObjectToken([NoPayload EXCEPT !.user_id = "r1",
                                                           !.exp = Num(2)])])

\* Values of FLAG_NATION_AUTH besides NoAuthData: the text of RemoteSession
\* cut short, which JSON.parse rejects, and a read of RemoteSession that
\* rejects.
CorruptAuthData == [kind |-> "corrupt", value |-> RemoteSession]

UnreadableAuthData == [kind |-> "unreadable", value |-> RemoteSession]

getAuthHeaderIgnoresExpiry(nowSeconds) ==
    IF loadAuthState.token.kind # "undefined"
    THEN Bearer(loadAuthState.token)
    ELSE NoHeader

getAuthHeader(nowSeconds) ==
    IF loadAuthState.token.kind # "undefined" /\ ~isTokenExpired(loadAuthState.token, nowSeconds)
    THEN Bearer(loadAuthState.token)
    ELSE NoHeader

\* The snapshot clearAllData saves.
clearedAppStateKeepsStack ==
    [present |-> ListFields,
     events |-> <<>>, teams |-> <<>>, players |-> <<>>, registrations |-> <<>>,
     currentEvent |-> NoEvent, currentTeam |-> NoTeam,
     auth |-> Unauthenticated, userId |-> NoId, userRole |-> "player",
     navigationStack |-> loadData.navigationStack]

clearedAppState ==
    [present |-> ListFields,
     events |-> <<>>, teams |-> <<>>, players |-> <<>>, registrations |-> <<>>,
     currentEvent |-> NoEvent, currentTeam |-> NoTeam,
     auth |-> Unauthenticated, userId |-> NoId, userRole |-> "player",
     navigationStack |-> getDefaultStack]

\* A call of the session manager or of a screen handler that changes nothing
\* but the two storage keys.
Finish(call, newAuthData, newAppData) ==
    /\ lastOp' = call
    /\ authData' = newAuthData
    /\ appData' = newAppData
    /\ UNCHANGED <<usersData, listeners, pending, handles, tasks, now>>

Login(username, password, remote) ==
    LET out == login(username, remote, now)
    IN  Finish([Call EXCEPT !.op = "login", !.username = username,
                              !.password = password, !.remote = remote, !.n = now,
                              !.steps = out.steps, !.threw = out.threw,
                              !.result = out.result],
               authData, appData)

Register(username, remote) ==
    LET out == register(username, remote, now)
    IN  Finish([Call EXCEPT !.op = "register", !.username = username,
                              !.remote = remote, !.n = now,
                              !.steps = out.steps, !.threw = out.threw,
                              !.result = out.result],
               authData, appData)

\* The tail of handleLogin and handleRegister: saveAuthState({user, token,
\* isAuthenticated: true}) when the service call resolved; an error of either
\* step ends in the handler's catch clause (threw names it) and is shown.
SaveSession(call, out, writeOk) ==
    IF out.threw # "none"
    THEN Finish([call EXCEPT !.steps = out.steps, !.threw = out.threw], authData, appData)
    ELSE IF writeOk
         THEN Finish([call EXCEPT !.steps = Append(out.steps, SetItem("auth", TRUE)),
                                  !.result = out.result, !.wrote = TRUE],
                     saveAuthState(Authenticated(out.result)), appData)
         ELSE Finish([call EXCEPT !.steps = Append(out.steps, SetItem("auth", FALSE)),
                                  !.result = out.result, !.threw = "write"],
                     authData, appData)

\* username and password are not blank: the handlers return at once
\* otherwise, and handleRegister also when the two passwords differ.
HandleLogin(username, password, remote, writeOk) ==
    SaveSession([Call EXCEPT !.op = "handleLogin", !.username = username,
                               !.password = password, !.remote = remote, !.n = now],
                login(username, remote, now), writeOk)

HandleRegister(username, password, remote, writeOk) ==
    SaveSession([Call EXCEPT !.op = "handleRegister", !.username = username,
                               !.password = password, !.remote = remote, !.n = now],
                register(username, remote, now), writeOk)

\* saveAuthState called by itself.
SaveAuthState(authState, writeOk) ==
    LET call == [Call EXCEPT !.op = "saveAuthState", !.session = authState,
                               !.steps = <<SetItem("auth", writeOk)>>]
    IN  IF writeOk
        THEN Finish([call EXCEPT !.wrote = TRUE], saveAuthState(authState), appData)
        ELSE Finish([call EXCEPT !.threw = "write"], authData, appData)

ClearAllData(writeOk) ==
    LET call == [Call EXCEPT !.op = "clearAllData", !.steps = <<SetItem("app", writeOk)>>]
    IN  IF writeOk
        THEN Finish([call EXCEPT !.wrote = TRUE], authData, saveData(clearedAppState))
        ELSE Finish([call EXCEPT !.threw = "write"], authData, appData)

\* logout with the outcomes of its setItem calls: w1 of the first
\* saveAuthState, w2 of clearAllData, w3 of the saveAuthState of the catch
\* clause. A failing step skips to the catch clause, which throws the error
\* it caught, or the error of its own saveAuthState.
logoutClearsFirst(w1, w2, w3) ==
    IF ~w2
    THEN [threw |-> "write", steps |-> <<SetItem("app", FALSE)>>,
          auth |-> authData, app |-> appData]
    ELSE IF ~w1
         THEN [threw |-> "write", steps |-> <<SetItem("app", TRUE), SetItem("auth", FALSE)>>,
               auth |-> authData, app |-> saveData(clearedAppState)]
         ELSE [threw |-> "none", steps |-> <<SetItem("app", TRUE), SetItem("auth", TRUE)>>,
               auth |-> saveAuthState(Unauthenticated), app |-> saveData(clearedAppState)]

logout(w1, w2, w3) ==
    LET reset == saveAuthState(Unauthenticated)
    IN  IF w1 /\ w2
        THEN [threw |-> "none", steps |-> <<SetItem("auth", TRUE), SetItem("app", TRUE)>>,
              auth |-> reset, app |-> saveData(clearedAppState)]
        ELSE IF w1
             THEN [threw |-> "write",
                   steps |-> <<SetItem("auth", TRUE), SetItem("app", FALSE),
                               SetItem("auth", w3)>>,
                   auth |-> reset, app |-> appData]
             ELSE [threw |-> "write",
                   steps |-> <<SetItem("auth", FALSE), SetItem("auth", w3)>>,
                   auth |-> IF w3 THEN reset ELSE authData, app |-> appData]

Logout(w1, w2, w3) ==
    LET out == logout(w1, w2, w3)
    IN  Finish([Call EXCEPT !.op = "logout", !.steps = out.steps, !.threw = out.threw,
                              !.wrote = \E k \in 1..Len(out.steps) : out.steps[k].ok],
               out.auth, out.app)

GetAuthHeader ==
    Finish([Call EXCEPT !.op = "getAuthHeader", !.n = now,
                          !.session = loadAuthState, !.header = getAuthHeader(now)],
           authData, appData)

LoadAuthState ==
    Finish([Call EXCEPT !.op = "loadAuthState", !.session = loadAuthState],
           authData, appData)

(***************************************************************************)
(* The session specification: the session manager and the two screens over *)
(* every content of the session key and of the cached users.               *)
(***************************************************************************)
\* A snapshot as saveData wrote it while a user was signed in.
FullAppData ==
    saveData([present |-> ListFields,
              events |-> <<Event("E1", "Cup"), Event("E2", "Open")>>,
              teams |-> <<Team("T1", "Alpha", "first team", NoId)>>,
              players |-> <<"P1">>,
              registrations |-> <<Registration("R1", "event", "E1", NoId, "approved")>>,
              currentEvent |-> Event("E1", "Cup"),
              currentTeam |-> Team("T1", "Alpha", "first team", NoId),
              auth |-> RemoteSession,
              userId |-> "r1", userRole |-> "organizer",
              navigationStack |-> <<DashboardItem, createEventsStackItem,
                                    createTeamStackItem("A", "Alpha")>>])

\* The sign-in and sign-up attempts of the session specification: a known
\* and an unknown username, a request that fails and every nested response.
SessionUsernames == {"alice", "bob"}

SessionOutcomes == {NetworkError} \cup {r \in OkResponses : r.nested}

InitSession ==
    /\ appData \in {LegacyAppData, FullAppData}
    /\ authData \in {NoAuthData, CorruptAuthData, UnreadableAuthData}
    /\ usersData \in {NoUsersData, CachedUsersData}
    /\ listeners = <<>>
    /\ pending = <<>>
    /\ handles = [l \in Fns |-> 0]
    /\ tasks = {}
    /\ now = 1
    /\ lastOp = NoCall

NextSession ==
    \/ \E username \in SessionUsernames, remote \in SessionOutcomes, writeOk \in BOOLEAN :
          HandleLogin(username, "secret", remote, writeOk)
    \/ \E username \in SessionUsernames, remote \in SessionOutcomes, writeOk \in BOOLEAN :
          HandleRegister(username, "secret", remote, writeOk)
    \/ \E w1 \in BOOLEAN, w2 \in BOOLEAN, w3 \in BOOLEAN : Logout(w1, w2, w3)
    \/ \E writeOk \in BOOLEAN : ClearAllData(writeOk)
    \/ GetAuthHeader
    \/ LoadAuthState
    \/ Tick

SpecSession == InitSession /\ [][NextSession]_vars

(***************************************************************************)
(* The sign-in specification: login and register with every username,      *)
(* password and outcome of the request, over every content of the cached   *)
(* users.                                                                  *)
(***************************************************************************)
InitLogin ==
    /\ appData = FullAppData
    /\ authData \in {NoAuthData, saveAuthState(RemoteSession)}
    /\ usersData \in {NoUsersData, CorruptUsersData, UnreadableUsersData, CachedUsersData}
    /\ listeners = <<>>
    /\ pending = <<>>
    /\ handles = [l \in Fns |-> 0]
    /\ tasks = {}
    /\ now = 1
    /\ lastOp = NoCall

NextLogin ==
    \/ \E username \in Usernames, password \in Passwords, remote \in RemoteOutcomes :
          Login(username, password, remote)
    \/ \E username \in Usernames, remote \in RemoteOutcomes : Register(username, remote)
    \/ Tick

SpecLogin == InitLogin /\ [][NextLogin]_vars

(***************************************************************************)
(* FlagNationDataService: the operations that ask the remote service and   *)
(* merge its response into the snapshot.                                   *)
(***************************************************************************)
\* a || b and a || b || c on string properties
Or2(a, b) == IF a # NoId THEN a ELSE b

Or3(a, b, c) == Or2(a, Or2(b, c))

\* The user id the session's user record holds.
getAuthenticatedUserIdFromUser == loadAuthState.user.id

\* tokenPayload?.user_id || tokenPayload?.userId || null of the persisted
\* session's token; null (here NoId) without an authenticated session or a
\* token.
getAuthenticatedUserId ==
    LET authState == loadAuthState
    IN  IF ~authState.isAuthenticated \/ authState.token.kind = "undefined"
        THEN NoId
        ELSE Or2(decodeTokenPayload(authState.token).user_id,
                 decodeTokenPayload(authState.token).userId)

\* An event of the list response, as far as getEvents reads it.
ApiEvent(eventId, event_id, id, name) ==
    [NoObject EXCEPT !.eventId = eventId, !.event_id = event_id, !.id = id, !.name = name]

\* event.eventId || event.event_id || event.id
transformedId(event) == Or3(event.eventId, event.event_id, event.id)

transformedEvents(apiEvents) ==
    [i \in 1..Len(apiEvents) |-> Event(transformedId(apiEvents[i]), apiEvents[i].name)]

\* name, desc and parentId of createTeam, for the call with one object
\* ("object") and the call with up to three strings ("positional");
\* description and parentTeamId are the second and third parameter of the
\* function itself, which the call with one object leaves undefined.
TeamArgs(form, name, description, parentId) ==
    [form |-> form, name |-> name, desc |-> description, parentId |-> parentId,
     description |-> IF form = "positional" THEN description ELSE NoId,
     parentTeamId |-> IF form = "positional" THEN parentId ELSE NoId]

\* The Team createTeam builds: description: response.description ||
\* description and parentTeamId: ... || parentTeamId read the parameters of
\* the function, not desc and parentId.
createdTeam(response, args) ==
    Team(Or3(response.teamId, response.team_id, response.id),
         Or2(response.name, args.name),
         Or2(response.description, args.description),
         Or3(response.parentTeamId, response.parent_team_id, args.parentTeamId))

\* list.push(x) and list.unshift(x)
push(list, x) == Append(list, x)

unshift(list, x) == <<x>> \o list

\* const index = list.findIndex(e => e.id === id);
\* if (index !== -1) list[index] = entity; else list.unshift(entity)
replaceOrPrepend(list, id, entity) ==
    LET index == FindIndex([i \in 1..Len(list) |-> list[i].id = id])
    IN  IF index # 0 - 1
        THEN [list EXCEPT ![index + 1] = entity]
        ELSE unshift(list, entity)

\* appState.events = transformedEvents, and a variant that keeps the events
\* the response does not name.
eventsMerged(appState, events) ==
    [appState EXCEPT !.events =
        events \o SelectSeq(appState.events,
                            LAMBDA e : \A i \in 1..Len(events) : events[i].id # e.id)]

eventsReplaced(appState, events) == [appState EXCEPT !.events = events]

\* An operation of the synchronizer, run to completion: `call` names it and
\* its request, `done` is `call` with what it returns. needsUser: the
\* operation starts with getAuthenticatedUserId and throws without a user id;
\* unusable: the transformation of the response throws a TypeError;
\* newAppState: the snapshot it saves, made from the one loadData gives.
\* makeApiRequest adds the header getAuthHeader gives to the request.
SynchronizeWritesOnFailure(call, done, needsUser, remote, unusable, newAppState, writeOk) ==
    LET sent(c) == [c EXCEPT !.remote = remote, !.n = now, !.header = getAuthHeader(now),
                             !.request.sent = TRUE, !.steps = <<Fetch(remote)>>]
    IN  IF needsUser /\ getAuthenticatedUserId = NoId
        THEN Finish([call EXCEPT !.request = NoRequest, !.threw = "must be authenticated"],
                    authData, appData)
        ELSE IF remote.kind # "ok"
             THEN Finish([sent(call) EXCEPT !.threw = remote.kind],
                         authData, saveData(loadData))
             ELSE Finish([sent(done) EXCEPT
                             !.steps = <<Fetch(remote), SetItem("app", TRUE)>>,
                             !.wrote = TRUE],
                         authData, saveData(newAppState))

Synchronize(call, done, needsUser, remote, unusable, newAppState, writeOk) ==
    LET sent(c) == [c EXCEPT !.remote = remote, !.n = now, !.header = getAuthHeader(now),
                             !.request.sent = TRUE, !.steps = <<Fetch(remote)>>]
    IN  IF needsUser /\ getAuthenticatedUserId = NoId
        THEN Finish([call EXCEPT !.request = NoRequest, !.threw = "must be authenticated"],
                    authData, appData)
        ELSE IF remote.kind # "ok"
             THEN Finish([sent(call) EXCEPT !.threw = remote.kind], authData, appData)
             ELSE IF unusable
                  THEN Finish([sent(call) EXCEPT !.threw = "TypeError"], authData, appData)
                  ELSE IF writeOk
                       THEN Finish([sent(done) EXCEPT
                                       !.steps = <<Fetch(remote), SetItem("app", TRUE)>>,
                                       !.wrote = TRUE],
                                   authData, saveData(newAppState))
                       ELSE Finish([sent(call) EXCEPT
                                       !.steps = <<Fetch(remote), SetItem("app", FALSE)>>,
                                       !.threw = "write"],
                                   authData, appData)

\* getEvents with the outcome of its request ("network", "http" or "ok" with
\* the list) and of its write: fetch, loadData, appState.events = ...,
\* saveData, return.
GetEvents(kind, apiEvents, writeOk) ==
    LET remote == [NoRemote EXCEPT !.kind = kind,
                                   !.list = IF kind = "ok" THEN apiEvents ELSE <<>>]
        call == [CountedCall EXCEPT !.op = "getEvents"]
    IN  Synchronize(call, [call EXCEPT !.events = transformedEvents(apiEvents)],
                    FALSE, remote, FALSE,
                    eventsReplaced(loadData, transformedEvents(apiEvents)), writeOk)

\* {...team, id: team.teamId || team.team_id || team.id, ...}
GetTeams(remote, writeOk) ==
    LET call == [CountedCall EXCEPT !.op = "getTeams",
                                    !.request.id = getAuthenticatedUserId]
        apiTeams == remote.list
        transformedTeams ==
            [i \in 1..Len(apiTeams) |->
                Team(Or3(apiTeams[i].teamId, apiTeams[i].team_id, apiTeams[i].id),
                     apiTeams[i].name, apiTeams[i].description, apiTeams[i].parentTeamId)]
    IN  Synchronize(call, [call EXCEPT !.teams = transformedTeams], TRUE, remote, FALSE,
                    [loadData EXCEPT !.teams = transformedTeams], writeOk)

\* type: registration.type || (registration.eventId || registration.event_id
\*                                ? 'event' : 'team')
GetRegistrations(remote, writeOk) ==
    LET call == [CountedCall EXCEPT !.op = "getRegistrations"]
        apiRegistrations == remote.list
        transformed(registration) ==
            Registration(Or3(registration.registrationId, registration.registration_id,
                             registration.id),
                         IF registration.type # NoId THEN registration.type
                         ELSE IF Or2(registration.eventId, registration.event_id) # NoId
                              THEN "event" ELSE "team",
                         Or2(registration.eventId, registration.event_id),
                         Or2(registration.teamId, registration.team_id),
                         Or2(registration.status, "pending"))
        transformedRegistrations ==
            [i \in 1..Len(apiRegistrations) |-> transformed(apiRegistrations[i])]
    IN  Synchronize(call, [call EXCEPT !.registrations = transformedRegistrations],
                    TRUE, remote, FALSE,
                    [loadData EXCEPT !.registrations = transformedRegistrations], writeOk)

\* response.event is read without a check: it is undefined, and reading its
\* id throws, when the response has no such property.
GetEventDetails(eventId, remote, writeOk) ==
    LET call == [CountedCall EXCEPT !.op = "getEventDetails", !.request.id = eventId]
        eventResponse == remote.body
        transformedEvent == Event(Or2(eventResponse.id, eventId), eventResponse.name)
    IN  Synchronize(call, [call EXCEPT !.event = transformedEvent],
                    FALSE, remote, ~remote.nested,
                    [loadData EXCEPT !.currentEvent = transformedEvent,
                                     !.events = replaceOrPrepend(@, eventId, transformedEvent)],
                    writeOk)

\* The Team getTeamDetails builds has no description.
GetTeamDetails(teamId, remote, writeOk) ==
    LET call == [CountedCall EXCEPT !.op = "getTeamDetails", !.request.id = teamId]
        teamResponse == remote.body
        transformedTeam ==
            Team(Or2(teamResponse.id, teamId), teamResponse.name, NoId,
                 Or2(teamResponse.parentTeamId, teamResponse.parent_team_id))
    IN  Synchronize(call, [call EXCEPT !.team = transformedTeam],
                    FALSE, remote, ~remote.nested,
                    [loadData EXCEPT !.currentTeam = transformedTeam,
                                     !.teams = replaceOrPrepend(@, teamId, transformedTeam)],
                    writeOk)

CreateEvent(name, remote, writeOk) ==
    LET call == [CountedCall EXCEPT !.op = "createEvent", !.request.name = name,
                                    !.request.userId = getAuthenticatedUserId]
        response == remote.body
        createdEvent ==
            Event(Or3(response.eventId, response.event_id, response.id),
                  Or2(response.name, name))
    IN  Synchronize(call, [call EXCEPT !.event = createdEvent], TRUE, remote, FALSE,
                    [loadData EXCEPT !.events = unshift(@, createdEvent)], writeOk)

\* The request carries name, desc and parentId of either call form.
CreateTeam(args, remote, writeOk) ==
    LET call == [CountedCall EXCEPT !.op = "createTeam", !.form = args.form,
                                    !.request.name = args.name,
                                    !.request.description = args.desc,
                                    !.request.parentId = args.parentId,
                                    !.request.userId = getAuthenticatedUserId]
        team == createdTeam(remote.body, args)
    IN  Synchronize(call, [call EXCEPT !.team = team], TRUE, remote, FALSE,
                    [loadData EXCEPT !.teams = unshift(@, team)], writeOk)

RegisterForEvent(eventId, remote, writeOk) ==
    LET call == [CountedCall EXCEPT !.op = "registerForEvent", !.request.id = eventId,
                                    !.request.userId = getAuthenticatedUserId]
        response == remote.body
        createdRegistration ==
            Registration(Or3(response.registrationId, response.registration_id, response.id),
                         "event", Or3(response.eventId, response.event_id, eventId), NoId,
                         Or2(response.status, "pending"))
    IN  Synchronize(call, [call EXCEPT !.registration = createdRegistration],
                    TRUE, remote, FALSE,
                    [loadData EXCEPT !.registrations = unshift(@, createdRegistration)],
                    writeOk)

JoinTeam(teamId, remote, writeOk) ==
    LET call == [CountedCall EXCEPT !.op = "joinTeam", !.request.id = teamId,
                                    !.request.userId = getAuthenticatedUserId]
        response == remote.body
        createdRegistration ==
            Registration(Or3(response.registrationId, response.registration_id, response.id),
                         "team", NoId, Or3(response.teamId, response.team_id, teamId),
                         Or2(response.status, "pending"))
    IN  Synchronize(call, [call EXCEPT !.registration = createdRegistration],
                    TRUE, remote, FALSE,
                    [loadData EXCEPT !.registrations = unshift(@, createdRegistration)],
                    writeOk)

\* getCurrentUser with the outcome of its request: null without a session
\* user; otherwise the response, or fallbackData (authState.user) when the
\* request fails.
getCurrentUser(remote) ==
    LET authState == loadAuthState
    IN  IF ~authState.isAuthenticated \/ authState.user = NoUser
        THEN [steps |-> <<>>, header |-> NoHeader, user |-> NoUser]
        ELSE [steps |-> <<Fetch(remote)>>,
              header |-> [set |-> TRUE, scheme |-> "Basic", token |-> authState.token],
              user |-> IF remote.kind = "ok" THEN remote.user ELSE authState.user]

GetCurrentUser(remote) ==
    LET out == getCurrentUser(remote)
    IN  Finish([CountedCall EXCEPT !.op = "getCurrentUser", !.remote = remote,
                                   !.steps = out.steps, !.header = out.header,
                                   !.result = [user |-> out.user, token |-> NoToken]],
               authData, appData)

(***************************************************************************)
(* The specification of failing writes: every call that persists, with     *)
(* AsyncStorage.setItem succeeding or rejecting, over a snapshot key that  *)
(* holds nothing, an unreadable text or a legacy object at first.          *)
(***************************************************************************)
ApiEventLists ==
    { <<>>,
      << ApiEvent("E1", NoId, "x", "Cup") >>,
      << ApiEvent(NoId, "E2", NoId, "Open"), ApiEvent(NoId, NoId, "E3", NoId) >> }

InitFail ==
    /\ appData \in {NoAppData, CorruptAppData, LegacyAppData}
    /\ InitRest

NextFail ==
    \/ \E item \in SubItems, writeOk \in BOOLEAN : PushToStack(item, writeOk)
    \/ \E writeOk \in BOOLEAN : PopFromStack(writeOk)
    \/ \E count \in SubPopCounts, writeOk \in BOOLEAN : PopMultipleFromStack(count, writeOk)
    \/ \E writeOk \in BOOLEAN : ClearStack(writeOk)
    \/ \E writeOk \in BOOLEAN : SyncStackToCurrentScreen(TabsRoute, NoId, writeOk)
    \/ Subscribe("l1", MaxNavListeners)
    \/ DeliverCurrentStack
    \/ Unsubscribe("l1")
    \/ \E authState \in {Unauthenticated, RemoteSession}, writeOk \in BOOLEAN :
          SaveAuthState(authState, writeOk)
    \/ \E writeOk \in BOOLEAN : ClearAllData(writeOk)
    \/ \E kind \in {"network", "http", "ok"}, apiEvents \in ApiEventLists,
          writeOk \in BOOLEAN : GetEvents(kind, apiEvents, writeOk)

SpecFail == InitFail /\ [][NextFail]_vars

(***************************************************************************)
(* The synchronizer specification: every operation of the synchronizer,    *)
(* the navigation mutations and getCurrentUser, one call at a time, over   *)
(* every kind of persisted session.                                        *)
(***************************************************************************)
\* A 2xx response with a JSON object, and one with a JSON array.
OkBody(body, nested) == [NoRemote EXCEPT !.kind = "ok", !.nested = nested, !.body = body]

OkList(list) == [NoRemote EXCEPT !.kind = "ok", !.nested = TRUE, !.list = list]

\* Persisted sessions: none, signed in by the remote service (user_id in the
\* token), signed in with a token that names the user as userId, with a
\* token atob rejects, with a token without user id, without token, and a
\* session with user and token that is not authenticated.
SyncSessions ==
    LET SessionWith(token) ==
            saveAuthState(Authenticated([user |-> User("r1", "alice"), token |-> token]))
    IN  { NoAuthData, saveAuthState(RemoteSession),
          SessionWith(ObjectToken([NoPayload EXCEPT !.userId = "r2", !.exp = Num(3)])),
          SessionWith(InvalidToken),
          SessionWith(ObjectToken([NoPayload EXCEPT !.username = "alice", !.exp = Num(3)])),
          SessionWith(NoToken),
          saveAuthState([RemoteSession EXCEPT !.isAuthenticated = FALSE]) }

\* The responses of the remote service to each operation: a request that
\* fails, and 2xx responses
\*  - to getEventDetails and getTeamDetails: without the `event` / `team`
\*    property, with an entity without id, with an entity whose id is not
\*    the one asked for;
\*  - to the creating operations: with the id under each of its names, with
\*    and without the properties the operation falls back on;
\*  - to registerForEvent and joinTeam: with and without status, and with a
\*    status and ids of the service's own;
\*  - to getRegistrations: registrations with the type given or left out,
\*    with one, both or none of eventId and teamId;
\*  - to getCurrentUser: the user object itself.
Responses ==
    [getEventDetails |->
        { NetworkError, OkBody(NoObject, FALSE),
          OkBody([NoObject EXCEPT !.name = "Final"], TRUE),
          OkBody([NoObject EXCEPT !.id = "E2", !.name = "Final"], TRUE) },
     createEvent |->
        { HttpError, OkBody([NoObject EXCEPT !.eventId = "E4"], FALSE),
          OkBody([NoObject EXCEPT !.id = "E5", !.name = "Derby Cup"], FALSE) },
     getTeamDetails |->
        { HttpError, OkBody(NoObject, FALSE),
          OkBody([NoObject EXCEPT !.name = "Alpha FC", !.parent_team_id = "T0"], TRUE),
          OkBody([NoObject EXCEPT !.id = "T1", !.name = "Alpha FC"], TRUE) },
     createTeam |->
        { NetworkError, OkBody([NoObject EXCEPT !.teamId = "T2"], FALSE),
          OkBody([NoObject EXCEPT !.id = "T3", !.description = "remote notes",
                                  !.parent_team_id = "T9"], FALSE) },
     getTeams |->
        { HttpError, OkList(<<>>),
          OkList(<< [NoObject EXCEPT !.teamId = "T1", !.name = "Alpha II"],
                    [NoObject EXCEPT !.id = "T4", !.name = "Delta"] >>) },
     registration |->
        { NetworkError, OkBody([NoObject EXCEPT !.registrationId = "R2"], FALSE),
          OkBody([NoObject EXCEPT !.id = "R3", !.status = "approved"], FALSE),
          OkBody([NoObject EXCEPT !.id = "R4", !.status = "waitlisted", !.eventId = "E9",
                                  !.teamId = "T9"], FALSE) },
     getRegistrations |->
        { HttpError, OkList(<<>>),
          OkList(<< [NoObject EXCEPT !.registration_id = "R5", !.event_id = "E1"],
                    [NoObject EXCEPT !.id = "R6", !.team_id = "T1",
                                     !.status = "rejected"] >>),
          OkList(<< [NoObject EXCEPT !.id = "R7", !.eventId = "E1", !.teamId = "T1"] >>),
          OkList(<< [NoObject EXCEPT !.id = "R8"] >>),
          OkList(<< [NoObject EXCEPT !.id = "R9", !.type = "team", !.eventId = "E1",
                                     !.status = "waitlisted"] >>) },
     getCurrentUser |->
        { NetworkError, HttpError,
          [NoRemote EXCEPT !.kind = "ok", !.user = User("r1", "alice")] }]

\* Calls of createTeam: every form, with and without description and parent.
CreateTeamCalls ==
    { TeamArgs(form, "Sub", d[1], d[2]) :
          form \in {"object", "positional"}, d \in {<<NoId, NoId>>, <<"notes", "T1">>} }

\* The session of the remote sign-in over every kind of snapshot, the other
\* sessions over the snapshot of a signed-in user; the clock is before the
\* expiry of every token, or after the expiry of the remote sign-in's.
InitSync ==
    /\ appData \in {NoAppData, LegacyAppData, FullAppData}
    /\ authData \in SyncSessions
    /\ authData # saveAuthState(RemoteSession) => appData = FullAppData
    /\ usersData = NoUsersData
    /\ listeners = <<>>
    /\ pending = <<>>
    /\ handles = [l \in Fns |-> 0]
    /\ tasks = {}
    /\ now \in {1, MaxNow}
    /\ now = MaxNow => authData = saveAuthState(RemoteSession) /\ appData = FullAppData
    /\ lastOp = NoCall

\* A run makes at most MaxCalls calls.
CallsLeft == lastOp.seq < MaxCalls

NextSync ==
    \/ CallsLeft /\ \E kind \in {"network", "ok"}, apiEvents \in ApiEventLists :
                        GetEvents(kind, apiEvents, TRUE)
    \/ CallsLeft /\ \E remote \in Responses.getTeams : GetTeams(remote, TRUE)
    \/ CallsLeft /\ \E remote \in Responses.getRegistrations :
                        GetRegistrations(remote, TRUE)
    \/ CallsLeft /\ \E eventId \in {"E1", "E3"}, remote \in Responses.getEventDetails :
                        GetEventDetails(eventId, remote, TRUE)
    \/ CallsLeft /\ \E teamId \in {"T1", "T4"}, remote \in Responses.getTeamDetails :
                        GetTeamDetails(teamId, remote, TRUE)
    \/ CallsLeft /\ \E remote \in Responses.createEvent, writeOk \in BOOLEAN :
                        CreateEvent("Derby", remote, writeOk)
    \/ CallsLeft /\ \E args \in CreateTeamCalls, remote \in Responses.createTeam :
                        CreateTeam(args, remote, TRUE)
    \/ CallsLeft /\ \E remote \in Responses.registration :
                        RegisterForEvent("E1", remote, TRUE)
    \/ CallsLeft /\ \E remote \in Responses.registration : JoinTeam("T1", remote, TRUE)
    \/ CallsLeft /\ PushToStack(createTeamStackItem("B", "Bravo"), TRUE)
    \/ CallsLeft /\ PopFromStack(TRUE)
    \/ CallsLeft /\ PopMultipleFromStack(2, TRUE)
    \/ CallsLeft /\ ClearStack(TRUE)
    \/ CallsLeft /\ SyncStackToCurrentScreen(createEventsStackItem.route, NoId, TRUE)
    \/ CallsLeft /\ \E remote \in Responses.getCurrentUser : GetCurrentUser(remote)

SpecSync == InitSync /\ [][NextSync]_vars

(***************************************************************************)
(* Calls in flight: pushToStack, syncStackToCurrentScreen, getEvents and   *)
(* logout run from one await to the next, the steps of several calls       *)
(* interleaved. AsyncStorage.getItem reads, and AsyncStorage.setItem       *)
(* writes, when it is called.                                              *)
(***************************************************************************)
\* A call in flight: pc names the await it is suspended at, appState is
\* what its loadData returned.
Task(id, op) ==
    [id |-> id, op |-> op, pc |-> "start", newStack |-> <<>>, events |-> <<>>,
     appState |-> BlankAppState]

\* The snapshot a call saves: the appState it loaded with its own property
\* assigned (appState.navigationStack = stack, appState.events =
\* transformedEvents).
StackTaskOps == {"pushToStack", "syncStackToCurrentScreen"}

assigned(task, appState) ==
    IF task.op \in StackTaskOps
    THEN [appState EXCEPT !.navigationStack = task.newStack]
    ELSE [appState EXCEPT !.events = task.events]

Step(task, next) ==
    /\ tasks' = (tasks \ {task}) \cup {next}
    /\ UNCHANGED <<authData, usersData, listeners, pending, handles, now>>

\* pushToStack(item) is called: loadNavigationStack reads the snapshot, and
\* the new stack is computed from the stack it read.
StartPushToStack(item) ==
    LET task == Task(Cardinality(tasks) + 1, "pushToStack")
        newStack == pushNewStack(loadNavigationStack, item)
    IN  /\ Cardinality(tasks) < MaxTasks
        /\ Step(task, [task EXCEPT !.pc = "saveNavigationStack", !.newStack = newStack])
        /\ UNCHANGED <<appData, lastOp>>

\* syncStackToCurrentScreen(currentRoute, screenId) is called:
\* loadNavigationStack reads the snapshot; the call ends there when there is
\* nothing to truncate.
StartSyncStackToCurrentScreen(currentRoute, screenId) ==
    LET task == Task(Cardinality(tasks) + 1, "syncStackToCurrentScreen")
        currentStack == loadNavigationStack
    IN  /\ Cardinality(tasks) < MaxTasks
        /\ IF needsTruncation(currentStack, currentRoute, screenId)
           THEN Step(task, [task EXCEPT !.pc = "saveNavigationStack",
                                        !.newStack = syncNewStack(currentStack, currentRoute,
                                                                  screenId)])
           ELSE Step(task, [task EXCEPT !.pc = "done", !.newStack = currentStack])
        /\ UNCHANGED <<appData, lastOp>>

\* logout() is called: saveAuthState writes the signed-out Session.
StartLogout ==
    LET task == Task(Cardinality(tasks) + 1, "logout")
    IN  /\ Cardinality(tasks) < MaxTasks
        /\ \A other \in tasks : other.op # "logout"
        /\ authData' = saveAuthState(Unauthenticated)
        /\ tasks' = tasks \cup {[task EXCEPT !.pc = "clearAllData"]}
        /\ UNCHANGED <<appData, usersData, listeners, pending, handles, now, lastOp>>

\* clearAllData of logout writes the cleared snapshot, and logout returns.
LogoutClearsAllData(task) ==
    /\ task.op = "logout" /\ task.pc = "clearAllData"
    /\ appData' = saveData(clearedAppState)
    /\ Step(task, [task EXCEPT !.pc = "done"])
    /\ lastOp' = [CountedCall EXCEPT !.op = "logout", !.wrote = TRUE,
                                     !.steps = <<SetItem("auth", TRUE), SetItem("app", TRUE)>>]

\* getEvents() is called: the request is sent.
StartGetEvents ==
    LET task == Task(Cardinality(tasks) + 1, "getEvents")
    IN  /\ Cardinality(tasks) < MaxTasks
        /\ Step(task, [task EXCEPT !.pc = "makeApiRequest"])
        /\ UNCHANGED <<appData, lastOp>>

\* The response of getEvents arrives: the events are transformed and
\* loadData reads the snapshot.
GetEventsResponds(task, apiEvents) ==
    /\ task.op = "getEvents" /\ task.pc = "makeApiRequest"
    /\ Step(task, [task EXCEPT !.pc = "saveData", !.events = transformedEvents(apiEvents),
                               !.appState = loadData])
    /\ UNCHANGED <<appData, lastOp>>

\* saveNavigationStack of pushToStack or syncStackToCurrentScreen starts:
\* loadData reads the snapshot.
LoadSnapshot(task) ==
    /\ task.op \in StackTaskOps /\ task.pc = "saveNavigationStack"
    /\ Step(task, [task EXCEPT !.pc = "saveData", !.appState = loadData])
    /\ UNCHANGED <<appData, lastOp>>

\* A saveData that reads the snapshot again and assigns into what it holds
\* now.
SaveSnapshotMerges(task) ==
    /\ task.pc = "saveData"
    /\ appData' = saveData(assigned(task, loadData))
    /\ IF task.op \in StackTaskOps
       THEN Step(task, [task EXCEPT !.pc = "notifyListeners"]) /\ UNCHANGED lastOp
       ELSE /\ Step(task, [task EXCEPT !.pc = "done"])
            /\ lastOp' = [CountedCall EXCEPT !.op = "getEvents", !.events = task.events,
                                             !.wrote = TRUE,
                                             !.steps = <<SetItem("app", TRUE)>>]

\* The call assigns its property to the appState it loaded and saveData
\* writes that appState; getEvents then returns its events.
SaveSnapshot(task) ==
    /\ task.pc = "saveData"
    /\ appData' = saveData(assigned(task, task.appState))
    /\ IF task.op \in StackTaskOps
       THEN Step(task, [task EXCEPT !.pc = "notifyListeners"]) /\ UNCHANGED lastOp
       ELSE /\ Step(task, [task EXCEPT !.pc = "done"])
            /\ lastOp' = [CountedCall EXCEPT !.op = "getEvents", !.events = task.events,
                                             !.wrote = TRUE,
                                             !.steps = <<SetItem("app", TRUE)>>]

\* notifyListeners of the call loads the stack for every listener, and the
\* call returns.
NotifyListeners(task) ==
    /\ task.op \in StackTaskOps /\ task.pc = "notifyListeners"
    /\ Step(task, [task EXCEPT !.pc = "done"])
    /\ lastOp' = [CountedCall EXCEPT !.op = task.op, !.returned = task.newStack,
                                     !.wrote = TRUE, !.steps = <<SetItem("app", TRUE)>>,
                                     !.calls = notifyListeners(appData)]
    /\ UNCHANGED appData

\* The places pushed and the lists of events the remote answers with.
RaceItems == { createTeamStackItem("B", "Bravo"), createEventsStackItem }

RaceEventLists ==
    { << ApiEvent("E7", NoId, NoId, "Derby") >>,
      << ApiEvent(NoId, NoId, "E1", "Cup"), ApiEvent(NoId, "E8", NoId, "Shield") >> }

\* Nothing stored, a legacy snapshot, or the snapshot and the Session of a
\* signed-in user who is on the screen of team A.
InitRace ==
    /\ \/ appData \in {NoAppData, LegacyAppData} /\ authData = NoAuthData
       \/ appData = FullAppData /\ authData = saveAuthState(RemoteSession)
    /\ usersData = NoUsersData
    /\ listeners = <<>>
    /\ pending = <<>>
    /\ handles = [l \in Fns |-> 0]
    /\ tasks = {}
    /\ now = 1
    /\ lastOp = NoCall

NextRace ==
    \/ \E item \in RaceItems : StartPushToStack(item)
    \/ StartSyncStackToCurrentScreen(TeamRoute("A"), "A")
    \/ StartGetEvents
    \/ StartLogout
    \/ \E task \in tasks : LogoutClearsAllData(task)
    \/ \E task \in tasks, apiEvents \in RaceEventLists : GetEventsResponds(task, apiEvents)
    \/ \E task \in tasks : LoadSnapshot(task)
    \/ \E task \in tasks : SaveSnapshot(task)
    \/ \E task \in tasks : NotifyListeners(task)

SpecRace == InitRace /\ [][NextRace]_vars

(***************************************************************************)
(* Vocabulary of the properties.                                           *)
(***************************************************************************)
\* The navigation stack held by the persisted Application Snapshot.
PersistedStack == loadData.navigationStack

IsPop(call) == call.op \in {"popFromStack", "popMultipleFromStack"}

RootAnchored(stack) == Len(stack) > 0 /\ stack[1].type = "dashboard"

Prefix(stack, k) == SubSeq(stack, 1, k)

\* The indices (1-based) of the items of `stack` with the type and id of x.
SamePlace(stack, x) ==
    {i \in 1..Len(stack) : stack[i].type = x.type /\ stack[i].id = x.id}

\* The indices (1-based) of the items of `stack` the screen (route, id) matches.
ScreenMatches(stack, route, screenId) ==
    {i \in 1..Len(stack) :
        \/ stack[i].route = route
        \/ screenId # NoId /\ stack[i].id = screenId /\ Includes(stack[i].route, screenId)}

Least(S) == CHOOSE i \in S : \A j \in S : i <= j

\* Every registered listener was called once, in registration order, with `stack`.
NotifiedAll(call, registered, stack) ==
    /\ Len(call.calls) = Len(registered)
    /\ \A k \in 1..Len(registered) :
          call.calls[k].fn = registered[k] /\ call.calls[k].stack = stack

C2_PopNClamp ==
    (lastOp.op = "popMultipleFromStack" /\ lastOp.n >= 0) =>
        LET kept == Prefix(lastOp.loaded, Max(1, Len(lastOp.loaded) - lastOp.n))
        IN  lastOp.returned = kept /\ PersistedStack = kept

(***************************************************************************)
(* C3. Push dedup/truncation: pushToStack(x) on a stack S returns and      *)
(* persists S up to and including the first item with the type and id of   *)
(* x when there is one (the original item is kept, x is not added), and S  *)
(* followed by x otherwise.                                                *)
(***************************************************************************)
C3_PushDedup ==
    lastOp.op = "pushToStack" =>
        LET S == lastOp.loaded
            x == lastOp.item
            expected == IF SamePlace(S, x) # {}
                        THEN Prefix(S, Least(SamePlace(S, x)))
                        ELSE Append(S, x)
        IN  lastOp.returned = expected /\ PersistedStack = expected

\* A push of a team already on the stack under another name, below the top.
C3_Witness ==
    /\ lastOp.op = "pushToStack"
    /\ Len(lastOp.returned) < Len(lastOp.loaded)
    /\ lastOp.item.id # NoId
    /\ \A i \in 1..Len(lastOp.returned) : lastOp.returned[i] # lastOp.item

(***************************************************************************)
(* C4 as stated. A pushed item without id never matches a stack item: it   *)
(* is always appended; and an item is appended whenever the stack holds no *)
(* item of its type.                                                       *)
(***************************************************************************)
C4_IdlessAlwaysAppended ==
    lastOp.op = "pushToStack" =>
        /\ lastOp.item.id = NoId => lastOp.returned = Append(lastOp.loaded, lastOp.item)
        /\ (\A i \in 1..Len(lastOp.loaded) : lastOp.loaded[i].type # lastOp.item.type)
              => lastOp.returned = Append(lastOp.loaded, lastOp.item)

(***************************************************************************)
(* C4 as amended. A pushed item without id matches the first stack item of *)
(* its type that has no id either: the stack is cut back to that item and  *)
(* does not grow; it is appended only when there is no such item. An item  *)
(* is appended whenever the stack holds no item of its type, whatever the  *)
(* ids.                                                                    *)
(***************************************************************************)
C4_IdlessMatchesIdless ==
    lastOp.op = "pushToStack" =>
        LET S == lastOp.loaded
            x == lastOp.item
            idless == {i \in 1..Len(S) : S[i].type = x.type /\ S[i].id = NoId}
        IN  /\ (x.id = NoId /\ idless # {}) =>
                  /\ lastOp.returned = Prefix(S, Least(idless))
                  /\ PersistedStack = Prefix(S, Least(idless))
            /\ (x.id = NoId /\ idless = {}) => lastOp.returned = Append(S, x)
            /\ (\A i \in 1..Len(S) : S[i].type # x.type) => lastOp.returned = Append(S, x)

\* The events list item pushed while it is on the stack, below the top.
C4_Witness ==
    /\ lastOp.op = "pushToStack"
    /\ lastOp.item = createEventsStackItem
    /\ Len(lastOp.loaded) = 3
    /\ lastOp.returned = <<DashboardItem, createEventsStackItem>>

(***************************************************************************)
(* C5. Sync truncation: when the first item of the stack S that matches    *)
(* the screen is at an index below the top, syncStackToCurrentScreen       *)
(* persists S up to and including that item and notifies every subscriber  *)
(* with it; the new top matches the screen.                                *)
(***************************************************************************)
C5_SyncTruncation ==
    lastOp.op = "syncStackToCurrentScreen" =>
        LET S == lastOp.loaded
            M == ScreenMatches(S, lastOp.route, lastOp.screenId)
        IN  (M # {} /\ Least(M) < Len(S)) =>
                /\ PersistedStack = Prefix(S, Least(M))
                /\ NotifiedAll(lastOp, listeners, Prefix(S, Least(M)))
                /\ Len(PersistedStack) \in
                      ScreenMatches(PersistedStack, lastOp.route, lastOp.screenId)

\* [dashboard, events, team A] synced to "/(tabs)" with a subscriber registered.
C5_Witness ==
    /\ lastOp.op = "syncStackToCurrentScreen"
    /\ lastOp.loaded = <<DashboardItem, createEventsStackItem,
                         createTeamStackItem("A", "Alpha")>>
    /\ lastOp.route = TabsRoute
    /\ PersistedStack = getDefaultStack
    /\ Len(lastOp.calls) > 0

(***************************************************************************)
(* C6. Sync no-op: a syncStackToCurrentScreen call that finds its match at *)
(* the top of the stack, or no match, leaves the persisted Application     *)
(* Snapshot as it was, writes nothing and calls no subscriber.             *)
(***************************************************************************)
C6_SyncNoOp ==
    [][ LET S == StackOf(appData)
            M == ScreenMatches(S, lastOp'.route, lastOp'.screenId)
        IN  (lastOp'.op = "syncStackToCurrentScreen" /\ (M = {} \/ Least(M) = Len(S))) =>
                /\ appData' = appData
                /\ lastOp'.wrote = FALSE
                /\ lastOp'.calls = <<>>
      ]_vars

\* A sync that matched the top of a stack above the root, with a subscriber.
C6_Witness ==
    /\ lastOp.op = "syncStackToCurrentScreen"
    /\ Len(lastOp.loaded) > 1
    /\ lastOp.loaded[Len(lastOp.loaded)].route = lastOp.route
    /\ ~lastOp.wrote
    /\ Len(listeners) > 0

(***************************************************************************)
(* C7. Pop at root is a no-op: popFromStack and popMultipleFromStack on a  *)
(* loaded stack of length <= 1 return it, write nothing, run no cleanup    *)
(* and call no subscriber; popFromStack on a longer stack drops exactly    *)
(* the last item, persists the rest and notifies every subscriber.         *)
(***************************************************************************)
C7_PopAtRoot ==
    [][ LET S == StackOf(appData)
        IN  /\ (IsPop(lastOp') /\ Len(S) <= 1) =>
                  /\ lastOp'.returned = S
                  /\ appData' = appData
                  /\ ~lastOp'.wrote /\ ~lastOp'.cleanup
                  /\ lastOp'.calls = <<>>
            /\ (lastOp'.op = "popFromStack" /\ Len(S) > 1) =>
                  /\ lastOp'.returned = Prefix(S, Len(S) - 1)
                  /\ PersistedStack' = Prefix(S, Len(S) - 1)
                  /\ lastOp'.wrote
                  /\ NotifiedAll(lastOp', listeners', Prefix(S, Len(S) - 1))
      ]_vars

\* popMultipleFromStack(n), n >= 1, at the root with a subscriber registered.
C7_Witness ==
    /\ lastOp.op = "popMultipleFromStack"
    /\ lastOp.n >= 1
    /\ Len(lastOp.loaded) = 1
    /\ lastOp.returned = lastOp.loaded
    /\ Len(listeners) > 0

(***************************************************************************)
(* C8. Subscription delivery: a listener is called with the current stack  *)
(* when its subscription is delivered, and once per registration after     *)
(* every mutation that wrote, each time with the stack that was persisted; *)
(* it is never called once its unsubscribe function has been called.       *)
(***************************************************************************)
Count(registered, listener) ==
    Cardinality({k \in 1..Len(registered) : registered[k] = listener})

CallsTo(call, listener) ==
    Cardinality({k \in 1..Len(call.calls) : call.calls[k].fn = listener})

C8_SubscriptionDelivery ==
    /\ \A k \in 1..Len(lastOp.calls) : handles[lastOp.calls[k].fn] > 0
    /\ lastOp.op = "deliver" =>
          lastOp.calls = << [fn |-> lastOp.fn, stack |-> PersistedStack] >>
    /\ lastOp.wrote =>
          /\ \A listener \in Fns : CallsTo(lastOp, listener) = handles[listener]
          /\ \A k \in 1..Len(lastOp.calls) : lastOp.calls[k].stack = PersistedStack

(***************************************************************************)
(* C9. Unsubscribing removes exactly one registration: a call of an        *)
(* unsubscribe function of a registered listener takes one registration of *)
(* that listener off the list and leaves every other registration, of the  *)
(* same function or of another, in place.                                  *)
(***************************************************************************)
C9_UnsubscribeRemovesOne ==
    [][ (lastOp'.op = "unsubscribe" /\ Count(listeners, lastOp'.fn) > 0) =>
            /\ Len(listeners') = Len(listeners) - 1
            /\ \A listener \in Fns :
                  Count(listeners', listener) =
                      Count(listeners, listener) - (IF listener = lastOp'.fn THEN 1 ELSE 0)
      ]_vars

(***************************************************************************)
(* C10. Token expiry determinism: isTokenExpired is TRUE for a token that  *)
(* cannot be decoded; for a decoded payload whose expiry field (exp, or    *)
(* expires_at when exp is absent), a number of epoch seconds or a date     *)
(* string converted to epoch seconds, lies before the current time it is   *)
(* TRUE, and it is FALSE when the expiry does not lie before it.           *)
(***************************************************************************)
\* The expiry of a payload in epoch seconds; NaN when it has none, or one
\* that is neither a number nor a date.
ExpiryOf(payload) ==
    LET field == IF payload.exp # Undef THEN payload.exp ELSE payload.expires_at
    IN  CASE field.t = "number" -> field
          [] field.t = "string" -> DateSeconds(field.s)
          [] OTHER -> NaN

C10_TokenExpiry ==
    lastOp.op = "isTokenExpired" =>
        /\ lastOp.token.kind = "invalid" => lastOp.expired
        /\ (lastOp.token.kind = "object" /\ ExpiryOf(lastOp.token.payload).t = "number") =>
              (lastOp.expired <=> ExpiryOf(lastOp.token.payload).n < lastOp.n)

(***************************************************************************)
(* Vocabulary of the session properties.                                   *)
(***************************************************************************)
\* The Session held under the session key.
PersistedSession == loadAuthState

\* The Application Snapshot held under the snapshot key.
PersistedSnapshot == loadData

FailedWrites(call) ==
    {k \in 1..Len(call.steps) : call.steps[k].io = "setItem" /\ ~call.steps[k].ok}

WritesOf(call, key) ==
    {k \in 1..Len(call.steps) :
        call.steps[k].io = "setItem" /\ call.steps[k].key = key /\ call.steps[k].ok}

Fetches(call) == {k \in 1..Len(call.steps) : call.steps[k].io = "fetch"}

(***************************************************************************)
(* C11. Auth header gating: getAuthHeader returns the empty object when    *)
(* the persisted Session has no token, when its token cannot be decoded,   *)
(* and when the token's expiry lies before the current time; for a token   *)
(* whose expiry does not lie before the current time it returns            *)
(* {Authorization: "Bearer " + token} with the stored token.               *)
(***************************************************************************)
C11_AuthHeaderGating ==
    lastOp.op = "getAuthHeader" =>
        LET token == PersistedSession.token
        IN  /\ token = NoToken => lastOp.header = NoHeader
            /\ token.kind \in {"invalid", "null"} => lastOp.header = NoHeader
            /\ (token.kind = "object" /\ ExpiryOf(token.payload).t = "number") =>
                  lastOp.header = IF ExpiryOf(token.payload).n < lastOp.n
                                  THEN NoHeader
                                  ELSE Bearer(token)

(***************************************************************************)
(* C12. Snapshot clear: a clearAllData call that returns leaves a          *)
(* persisted snapshot with events, teams, players and registrations empty, *)
(* no currentEvent, currentTeam or userId, auth.isAuthenticated false,     *)
(* userRole 'player' and navigationStack = [dashboard]; a second call      *)
(* right after it leaves the same snapshot.                                *)
(***************************************************************************)
IsCleared(snapshot) ==
    /\ snapshot.events = <<>> /\ snapshot.teams = <<>>
    /\ snapshot.players = <<>> /\ snapshot.registrations = <<>>
    /\ snapshot.currentEvent = NoEvent /\ snapshot.currentTeam = NoTeam
    /\ snapshot.userId = NoId
    /\ ~snapshot.auth.isAuthenticated
    /\ snapshot.userRole = "player"
    /\ snapshot.navigationStack = <<DashboardItem>>

C12_SnapshotClear ==
    [][ (lastOp'.op = "clearAllData" /\ lastOp'.threw = "none") =>
            /\ appData'.kind = "json" /\ IsCleared(appData'.value)
            /\ IsCleared(PersistedSnapshot')
            /\ (lastOp.op = "clearAllData" /\ lastOp.threw = "none") => appData' = appData
      ]_vars

\* clearAllData has returned while the Session is authenticated and the
\* snapshot is cleared.
C12_Witness ==
    /\ lastOp.op = "clearAllData"
    /\ lastOp.wrote
    /\ PersistedSession.isAuthenticated
    /\ IsCleared(PersistedSnapshot)

(***************************************************************************)
(* Vocabulary of the sign-in properties.                                   *)
(***************************************************************************)
\* The cached users a reader of FLAG_NATION_USERS can get: none when the
\* key is absent or its value cannot be read or parsed.
CachedUsers ==
    IF usersData.kind = "json"
    THEN {usersData.value[i] : i \in 1..Len(usersData.value)}
    ELSE {}

RemoteFailed(call) == call.remote.kind \in {"network", "http"}

(***************************************************************************)
(* C13. Login local fallback succeeds for a cached user: a login whose     *)
(* request failed and whose username is that of a cached user returns,     *)
(* for every password, a cached user of that username and a token whose    *)
(* decoded payload has user_id = that user's id, username = the given      *)
(* username and exp = issue time + 14 days; isTokenExpired is false for    *)
(* the token at every time up to exp and true after it.                    *)
(***************************************************************************)
C13_LoginFallbackSucceeds ==
    (/\ lastOp.op = "login"
     /\ RemoteFailed(lastOp)
     /\ \E u \in CachedUsers : u.username = lastOp.username) =>
        LET payload == decodeTokenPayload(lastOp.result.token)
            exp == lastOp.n + FourteenDays
        IN  /\ lastOp.threw = "none"
            /\ lastOp.result.user \in CachedUsers
            /\ lastOp.result.user.username = lastOp.username
            /\ lastOp.result.token.kind = "object"
            /\ payload.user_id = lastOp.result.user.id
            /\ payload.username = lastOp.username
            /\ payload.exp = Num(exp)
            /\ \A t \in {lastOp.n, exp - 1, exp} : ~isTokenExpired(lastOp.result.token, t)
            /\ isTokenExpired(lastOp.result.token, exp + 1)

(***************************************************************************)
(* C14. Login local fallback rejects unknown users: a login whose request  *)
(* failed and whose username is that of no cached user (the cached users   *)
(* absent or unreadable included) fails with the invalid-credentials       *)
(* error, returns no user and no token, and leaves the persisted Session   *)
(* and Application Snapshot as they were.                                  *)
(***************************************************************************)
C14_LoginFallbackRejects ==
    [][ (/\ lastOp'.op = "login"
         /\ RemoteFailed(lastOp')
         /\ \A u \in CachedUsers : u.username # lastOp'.username) =>
            /\ lastOp'.threw = "Invalid username or password"
            /\ lastOp'.result = NoResult
            /\ WritesOf(lastOp', "auth") = {} /\ WritesOf(lastOp', "app") = {}
            /\ authData' = authData
            /\ appData' = appData
      ]_vars

\* An unknown username against a cache that holds other users, while a
\* Session is persisted.
C14_Witness ==
    /\ lastOp.op = "login"
    /\ lastOp.remote = HttpError
    /\ lastOp.username = "bob"
    /\ usersData = CachedUsersData
    /\ lastOp.threw = "Invalid username or password"
    /\ PersistedSession.isAuthenticated

C18_SessionInvariant ==
    PersistedSession.isAuthenticated => PersistedSession.token # NoToken

(***************************************************************************)
(* C19. loadAuthState never raises: for every content of the session key   *)
(* it returns a Session; when the key is absent or its value cannot be     *)
(* read or parsed it returns {isAuthenticated: false} with no user and no  *)
(* token, otherwise the stored user, flag and token; it writes nothing.    *)
(***************************************************************************)
C19_LoadSessionNeverRaises ==
    [][ lastOp'.op = "loadAuthState" =>
            /\ lastOp'.threw = "none"
            /\ authData.kind \in {"none", "corrupt", "unreadable"} =>
                  lastOp'.session = Unauthenticated
            /\ authData.kind = "json" =>
                  lastOp'.session = [user |-> authData.value.user,
                                     isAuthenticated |-> authData.value.isAuthenticated,
                                     token |-> authData.value.token]
            /\ lastOp'.steps = <<>>
            /\ authData' = authData /\ appData' = appData
      ]_vars

\* A session key whose text JSON.parse rejects was loaded.
C19_Witness ==
    /\ lastOp.op = "loadAuthState"
    /\ authData = CorruptAuthData
    /\ lastOp.session = Unauthenticated

AuthenticatedOps ==
    {"createEvent", "createTeam", "getTeams", "registerForEvent", "joinTeam",
     "getRegistrations"}

SynchronizerOps ==
    AuthenticatedOps \cup {"getEvents", "getEventDetails", "getTeamDetails"}

\* No authenticated user id can be derived from the persisted Session: it
\* is not authenticated, has no token, has a token that does not decode to
\* an object, or one whose payload has neither user_id nor userId.
NoUserIdDerivable ==
    \/ ~PersistedSession.isAuthenticated
    \/ PersistedSession.token = NoToken
    \/ PersistedSession.token.kind # "object"
    \/ /\ PersistedSession.token.payload.user_id = NoId
       /\ PersistedSession.token.payload.userId = NoId

\* The call returned no entity, list or user.
ReturnedNothing(call) ==
    /\ call.event = NoEvent /\ call.team = NoTeam /\ call.registration = NoRegistration
    /\ call.events = <<>> /\ call.teams = <<>> /\ call.registrations = <<>>
    /\ call.result = NoResult

(***************************************************************************)
(* C21. Authentication precondition: a createEvent, createTeam, getTeams,  *)
(* registerForEvent, joinTeam or getRegistrations call made while no       *)
(* authenticated user id can be derived from the persisted Session raises  *)
(* its "must be authenticated" error, issues no network request, returns   *)
(* nothing and leaves the Application Snapshot and the Session unchanged.  *)
(***************************************************************************)
C21_AuthPrecondition ==
    [][ (lastOp'.op \in AuthenticatedOps /\ NoUserIdDerivable) =>
            /\ lastOp'.threw = "must be authenticated"
            /\ Fetches(lastOp') = {} /\ lastOp'.steps = <<>>
            /\ ~lastOp'.request.sent
            /\ ReturnedNothing(lastOp')
            /\ appData' = appData /\ authData' = authData
      ]_vars

\* createTeam called while the Session is authenticated with a token that
\* cannot be decoded, over a snapshot that holds teams.
C21_Witness ==
    /\ lastOp.op = "createTeam"
    /\ lastOp.threw = "must be authenticated"
    /\ PersistedSession.isAuthenticated
    /\ PersistedSession.token = InvalidToken
    /\ Len(PersistedSnapshot.teams) > 0

C23_FallbackOnlyForLogin ==
    (lastOp.op \in SynchronizerOps \cup {"getCurrentUser"} /\ RemoteFailed(lastOp)) =>
        /\ lastOp.threw # "none"
        /\ ReturnedNothing(lastOp)

\* The properties of the Application Snapshot.
SnapshotFields ==
    {"events", "teams", "players", "registrations", "currentEvent", "currentTeam",
     "auth", "userId", "userRole", "navigationStack"}

\* The snapshots agree on every property outside `changed`.
SameExcept(before, after, changed) ==
    \A field \in SnapshotFields \ changed : after[field] = before[field]

\* The list property a list fetch is about, and the list the call returned.
ListOf(call) ==
    CASE call.op = "getEvents" -> [field |-> "events", returned |-> call.events]
      [] call.op = "getTeams" -> [field |-> "teams", returned |-> call.teams]
      [] call.op = "getRegistrations" ->
            [field |-> "registrations", returned |-> call.registrations]

\* The ids under which a response object names its entity, for an operation.
IdsOf(op, object) ==
    CASE op = "getEvents" -> {object.eventId, object.event_id, object.id}
      [] op = "getTeams" -> {object.teamId, object.team_id, object.id}
      [] op = "getRegistrations" ->
            {object.registrationId, object.registration_id, object.id}

(***************************************************************************)
(* C24. List fetches replace wholesale and touch nothing else: after a     *)
(* getEvents, getTeams or getRegistrations call that returned, the         *)
(* persisted list of that kind is the list the call returned, which has    *)
(* one entity per element of the remote list, in its order and under its   *)
(* id, whatever the list held before; every other property of the          *)
(* persisted Application Snapshot is unchanged.                            *)
(***************************************************************************)
C24_ListFetchReplaces ==
    [][ (lastOp'.op \in {"getEvents", "getTeams", "getRegistrations"}
            /\ lastOp'.threw = "none") =>
            LET list == ListOf(lastOp')
                remoteList == lastOp'.remote.list
            IN  /\ PersistedSnapshot'[list.field] = list.returned
                /\ Len(list.returned) = Len(remoteList)
                /\ \A i \in 1..Len(remoteList) :
                      /\ list.returned[i].id \in IdsOf(lastOp'.op, remoteList[i])
                      /\ list.returned[i].id = NoId =>
                            IdsOf(lastOp'.op, remoteList[i]) = {NoId}
                /\ SameExcept(PersistedSnapshot, PersistedSnapshot', {list.field})
      ]_vars

\* getEvents returned one event over a snapshot that held two events, a
\* team, a registration and a stack of three places: the second event is
\* gone, the rest is kept.
C24_Witness ==
    /\ lastOp.op = "getEvents"
    /\ lastOp.threw = "none"
    /\ PersistedSnapshot.events = <<Event("E1", "Cup")>>
    /\ PersistedSnapshot.teams # <<>>
    /\ PersistedSnapshot.registrations # <<>>
    /\ PersistedSnapshot.currentEvent = Event("E1", "Cup")
    /\ Len(PersistedSnapshot.navigationStack) = 3

\* The list and the current-entity property a detail fetch is about, and the
\* entity the call returned.
DetailOf(call) ==
    IF call.op = "getEventDetails"
    THEN [field |-> "events", current |-> "currentEvent", entity |-> call.event]
    ELSE [field |-> "teams", current |-> "currentTeam", entity |-> call.team]

\* The indices (1-based) of the entities of `list` with the id `id`.
WithId(list, id) == {i \in 1..Len(list) : list[i].id = id}

(***************************************************************************)
(* C25. Detail fetch is replace-or-prepend by id: after a getEventDetails  *)
(* (getTeamDetails) call that returned, currentEvent (currentTeam) is the  *)
(* returned entity; if the list held an entity with the returned entity's  *)
(* id, that entry is replaced in place and the list keeps its length,      *)
(* otherwise the entity is prepended; if the list held at most one entry   *)
(* with that id before, it holds exactly one afterwards.                   *)
(***************************************************************************)
C25_DetailReplaceOrPrepend ==
    [][ (lastOp'.op \in {"getEventDetails", "getTeamDetails"} /\ lastOp'.threw = "none") =>
            LET detail == DetailOf(lastOp')
                before == PersistedSnapshot[detail.field]
                after == PersistedSnapshot'[detail.field]
                held == WithId(before, detail.entity.id)
            IN  /\ PersistedSnapshot'[detail.current] = detail.entity
                /\ held # {} =>
                      \E i \in held : after = [before EXCEPT ![i] = detail.entity]
                /\ held = {} => after = <<detail.entity>> \o before
                /\ Cardinality(held) <= 1 =>
                      Cardinality(WithId(after, detail.entity.id)) = 1
      ]_vars

\* The list property a creating operation is about, and the entity the call
\* returned.
CreatedBy(call) ==
    CASE call.op = "createEvent" -> [field |-> "events", entity |-> call.event]
      [] call.op = "createTeam" -> [field |-> "teams", entity |-> call.team]
      [] call.op \in {"registerForEvent", "joinTeam"} ->
            [field |-> "registrations", entity |-> call.registration]

CreatingOps == {"createEvent", "createTeam", "registerForEvent", "joinTeam"}

(***************************************************************************)
(* C26. Creates prepend and persist before returning: after a createEvent, *)
(* createTeam, registerForEvent or joinTeam call that returned, the        *)
(* persisted list of that kind is the returned entity followed by the      *)
(* previous list in its order, the write of the snapshot succeeded before  *)
(* the call returned (a call whose write failed does not return), and      *)
(* every other property of the persisted Application Snapshot, the         *)
(* navigation stack and the other lists among them, is unchanged.          *)
(***************************************************************************)
C26_CreatesPrepend ==
    [][ lastOp'.op \in CreatingOps =>
            /\ lastOp'.threw = "none" =>
                  LET created == CreatedBy(lastOp')
                  IN  /\ PersistedSnapshot'[created.field] =
                            <<created.entity>> \o PersistedSnapshot[created.field]
                      /\ lastOp'.steps = <<Fetch(lastOp'.remote), SetItem("app", TRUE)>>
                      /\ lastOp'.wrote /\ appData'.kind = "json"
                      /\ SameExcept(PersistedSnapshot, PersistedSnapshot', {created.field})
            /\ FailedWrites(lastOp') # {} =>
                  lastOp'.threw = "write" /\ ReturnedNothing(lastOp')
      ]_vars

\* joinTeam returned over a snapshot that held a registration and a stack
\* of three places: the new registration is first, the old one second.
C26_Witness ==
    /\ lastOp.op = "joinTeam"
    /\ lastOp.threw = "none"
    /\ Len(PersistedSnapshot.registrations) = 2
    /\ PersistedSnapshot.registrations[1] = lastOp.registration
    /\ PersistedSnapshot.registrations[2] = Registration("R1", "event", "E1", NoId, "approved")
    /\ Len(PersistedSnapshot.navigationStack) = 3

\* The other call form of createTeam.
OtherForm(form) == IF form = "object" THEN "positional" ELSE "object"

(***************************************************************************)
(* C27. createTeam call forms are equivalent: for every name, description  *)
(* and parent id and every remote response, a createTeam call that         *)
(* returned has returned and persisted the Team the call of the other form *)
(* with the same name, description and parent id returns for the same      *)
(* response, the description and parentTeamId included when the response   *)
(* omits them (both forms send the request recorded with the call).        *)
(***************************************************************************)
C27_CreateTeamFormsEquivalent ==
    (lastOp.op = "createTeam" /\ lastOp.threw = "none") =>
        LET other == TeamArgs(OtherForm(lastOp.form), lastOp.request.name,
                              lastOp.request.description, lastOp.request.parentId)
        IN  /\ lastOp.team = createdTeam(lastOp.remote.body, other)
            /\ PersistedSnapshot.teams[1] = createdTeam(lastOp.remote.body, other)

\* The Registrations a call stored in the snapshot, each with the remote
\* object it was built from.
StoredRegistrations(call) ==
    IF call.op = "getRegistrations"
    THEN { <<call.registrations[i], call.remote.list[i]>> : i \in 1..Len(call.registrations) }
    ELSE { <<call.registration, call.remote.body>> }

(***************************************************************************)
(* C28. Registration shape invariant: every Registration stored in the     *)
(* snapshot by registerForEvent, joinTeam or getRegistrations, for any     *)
(* remote response, has type 'event' or 'team', has exactly one of eventId *)
(* and teamId populated, the one its type names, and has a status among    *)
(* pending, approved and rejected that is 'pending' whenever the remote    *)
(* gives none.                                                             *)
(***************************************************************************)
C28_RegistrationShape ==
    (lastOp.op \in {"registerForEvent", "joinTeam", "getRegistrations"}
        /\ lastOp.threw = "none") =>
        \A stored \in StoredRegistrations(lastOp) :
            LET registration == stored[1]
                remote == stored[2]
            IN  /\ registration.type \in {"event", "team"}
                /\ registration.type = "event" =>
                      registration.eventId # NoId /\ registration.teamId = NoId
                /\ registration.type = "team" =>
                      registration.teamId # NoId /\ registration.eventId = NoId
                /\ registration.status \in {"pending", "approved", "rejected"}
                /\ remote.status = NoId => registration.status = "pending"

\* The operations that mutate the navigation stack.
StackMutations ==
    {"pushToStack", "popFromStack", "popMultipleFromStack", "clearStack",
     "syncStackToCurrentScreen"}

(***************************************************************************)
(* C29. Read-merge-write keeps the other owner's subtree: with operations  *)
(* running one at a time, a navigation-stack mutation (push, pop,          *)
(* popMultiple, clearStack, truncating sync) changes only the              *)
(* navigationStack property of the persisted Application Snapshot, and a   *)
(* synchronizer operation other than clearAllData leaves navigationStack   *)
(* unchanged, whether it returns or throws.                                *)
(***************************************************************************)
C29_ReadMergeWrite ==
    [][ /\ lastOp'.op \in StackMutations =>
              SameExcept(PersistedSnapshot, PersistedSnapshot', {"navigationStack"})
        /\ lastOp'.op \in SynchronizerOps =>
              PersistedSnapshot'.navigationStack = PersistedSnapshot.navigationStack
      ]_vars

\* A push wrote a stack of two places into a snapshot that holds the
\* event it held at first and the teams a synchronizer call stored before
\* the push.
C29_Witness ==
    /\ lastOp.op = "pushToStack"
    /\ lastOp.wrote
    /\ lastOp.seq = 2
    /\ Len(PersistedSnapshot.navigationStack) = 2
    /\ Len(PersistedSnapshot.teams) = 2
    /\ PersistedSnapshot.events # <<>>

(***************************************************************************)
(* C30. Interleaved mutations are last-writer-wins on the whole snapshot:  *)
(* no lock or transaction orders the calls in flight, and the write of a   *)
(* call persists the snapshot that call read with its own property         *)
(* assigned, whatever other calls have written between its read and its    *)
(* write; so an interleaving of two calls that both complete can leave the *)
(* persisted snapshot without the effect of one of them (C30_Witness).     *)
(***************************************************************************)
C30_LastWriterWins ==
    [][ \A task \in tasks :
            (task.pc = "saveData" /\ task \notin tasks') =>
                PersistedSnapshot' = assigned(task, task.appState)
      ]_vars

\* pushToStack and getEvents have both completed, the persisted snapshot
\* holds the stack of the push and not the events getEvents returned.
C30_Witness ==
    /\ Cardinality(tasks) = 2
    /\ \A task \in tasks : task.pc = "done"
    /\ \E pushing \in tasks, fetching \in tasks :
          /\ pushing.op = "pushToStack" /\ fetching.op = "getEvents"
          /\ PersistedSnapshot.navigationStack = pushing.newStack
          /\ PersistedSnapshot.events # fetching.events

(***************************************************************************)
(* C31. Notification order: a stack mutation that wrote the snapshot has   *)
(* called, before it returned and after its write, every listener          *)
(* registered at that time once per registration, one after another in     *)
(* registration order, each with the stack the snapshot then holds; a      *)
(* no-op (pop at root, sync with nothing to truncate) writes nothing and   *)
(* calls no listener.                                                      *)
(***************************************************************************)
C31_NotificationOrder ==
    [][ lastOp'.op \in StackMutations =>
            /\ lastOp'.wrote =>
                  /\ lastOp'.steps = <<SetItem("app", TRUE)>>
                  /\ Len(lastOp'.calls) = Len(listeners)
                  /\ \A i \in 1..Len(listeners) :
                        /\ lastOp'.calls[i].fn = listeners[i]
                        /\ lastOp'.calls[i].stack = loadNavigationStack'
                  /\ listeners' = listeners
            /\ ~lastOp'.wrote => lastOp'.calls = <<>> /\ appData' = appData
            /\ (lastOp'.op \in {"popFromStack", "popMultipleFromStack"}
                    /\ Len(lastOp'.loaded) <= 1) => ~lastOp'.wrote
            /\ (lastOp'.op = "syncStackToCurrentScreen"
                    /\ ~needsTruncation(lastOp'.loaded, lastOp'.route, lastOp'.screenId))
                  => ~lastOp'.wrote
      ]_vars

\* A push notified two different listeners, the first registered first.
C31_Witness ==
    /\ lastOp.op = "pushToStack"
    /\ lastOp.wrote
    /\ Len(lastOp.calls) = 2
    /\ lastOp.calls[1].fn # lastOp.calls[2].fn
    /\ lastOp.calls[1].fn = listeners[1]

\* The stack the stored snapshot text holds, when it holds one that is not
\* empty; [dashboard] when nothing is stored, the text is unreadable, or the
\* stored object has no navigationStack or an empty one.
StoredStackOrDefault ==
    IF /\ appData.kind = "json"
       /\ "navigationStack" \in appData.value.present
       /\ appData.value.navigationStack # <<>>
    THEN appData.value.navigationStack
    ELSE getDefaultStack

(***************************************************************************)
(* C32. loadStack default: loadNavigationStack never raises and returns    *)
(* the stack stored in the Application Snapshot when that stack is         *)
(* non-empty, and [dashboard] when the snapshot is absent, unreadable, or  *)
(* holds an absent or empty navigationStack; it performs no write. Stated  *)
(* for every call that loads the stack: the read of a subscription         *)
(* (getCurrentStack) and the first step of push, pop, popMultiple and      *)
(* sync.                                                                   *)
(***************************************************************************)
C32_LoadStackDefault ==
    [][ /\ lastOp'.op \in {"deliver", "pushToStack", "popFromStack",
                           "popMultipleFromStack", "syncStackToCurrentScreen"} =>
              lastOp'.loaded = StoredStackOrDefault
        /\ lastOp'.op = "deliver" =>
              /\ lastOp'.threw = "none" /\ ~lastOp'.wrote /\ lastOp'.steps = <<>>
              /\ appData' = appData
              /\ lastOp'.calls[1].stack = StoredStackOrDefault
      ]_vars

\* getCurrentStack read a stored snapshot whose navigationStack is the empty
\* array, and gave [dashboard].
C32_Witness ==
    /\ lastOp.op = "deliver"
    /\ appData.kind = "json"
    /\ "navigationStack" \in appData.value.present
    /\ appData.value.navigationStack = <<>>
    /\ lastOp.loaded = getDefaultStack

\* The value of a property of the stored object, or its default when the
\* stored object lacks it.
StoredOr(field, default) ==
    IF field \in appData.value.present THEN appData.value[field] ELSE default

(***************************************************************************)
(* C33. Snapshot load and migration: when nothing is persisted, or the     *)
(* persisted text cannot be parsed, loadData returns the default snapshot: *)
(* empty entity lists, userRole 'player', navigationStack [dashboard] and  *)
(* auth taken from the persisted Session. When a snapshot is persisted it  *)
(* returns it with every missing property defaulted (lists to empty, auth  *)
(* to unauthenticated, userRole to 'player', navigationStack to            *)
(* [dashboard]) and every present property preserved. Migrating a migrated *)
(* snapshot changes nothing, and neither does loading what saveData wrote  *)
(* of a loaded snapshot. (loadData has no outcome but a snapshot: it never *)
(* raises.)                                                                *)
(***************************************************************************)
C33_LoadAndMigrate ==
    /\ appData.kind # "json" =>
          /\ \A list \in {"events", "teams", "players", "registrations"} :
                loadData[list] = <<>>
          /\ loadData.currentEvent = NoEvent /\ loadData.currentTeam = NoTeam
          /\ loadData.userRole = "player"
          /\ loadData.navigationStack = getDefaultStack
          /\ loadData.auth = PersistedSession
          /\ loadData.userId = PersistedSession.user.id
    /\ appData.kind = "json" =>
          /\ \A list \in {"events", "teams", "players", "registrations"} :
                loadData[list] = StoredOr(list, <<>>)
          /\ loadData.auth = StoredOr("auth", Unauthenticated)
          /\ loadData.navigationStack = StoredOr("navigationStack", getDefaultStack)
          /\ loadData.userRole =
                IF appData.value.userRole = "undefined" THEN "player"
                ELSE appData.value.userRole
          /\ loadData.currentEvent = appData.value.currentEvent
          /\ loadData.currentTeam = appData.value.currentTeam
          /\ loadData.userId = appData.value.userId
    /\ migrateData(loadData) = loadData
    /\ loadDataFrom(saveData(loadData)) = loadData

\* A push whose write failed has loaded the legacy snapshot, which has
\* events and a role but neither auth nor navigationStack, while a Session
\* is persisted: the stack it loaded is the default, the role is the stored
\* one and auth is unauthenticated.
C33_Witness ==
    /\ lastOp.op = "pushToStack"
    /\ lastOp.threw = "write"
    /\ appData = LegacyAppData
    /\ PersistedSession.isAuthenticated
    /\ lastOp.loaded = getDefaultStack
    /\ loadData.userRole = "organizer"
    /\ loadData.events = <<Event("E1", "Cup")>>
    /\ loadData.auth = Unauthenticated

\* The key of a breadcrumb: `${item.type}-${item.id || 'root'}`, held as the
\* pair of its two parts (no type contains a hyphen).
breadcrumbKey(item) == <<item.type, IF item.id = NoId THEN "root" ELSE item.id>>

(***************************************************************************)
(* C34. No duplicate places on the stack: starting from [dashboard], after *)
(* any sequence of pushToStack, popFromStack, popMultipleFromStack,        *)
(* clearStack and syncStackToCurrentScreen executed one at a time, no two  *)
(* items of the persisted navigation stack have the same (type, id) pair,  *)
(* so the breadcrumb keys built from type and id are pairwise distinct.    *)
(***************************************************************************)
C34_NoDuplicatePlaces ==
    \A i \in 1..Len(PersistedStack), j \in 1..Len(PersistedStack) :
        /\ (PersistedStack[i].type = PersistedStack[j].type
                /\ PersistedStack[i].id = PersistedStack[j].id) => i = j
        /\ breadcrumbKey(PersistedStack[i]) = breadcrumbKey(PersistedStack[j]) => i = j

\* A push of a place that was on the stack under another name left a stack
\* of at least two places, no longer than the one it loaded.
C34_Witness ==
    /\ lastOp.op = "pushToStack"
    /\ lastOp.wrote
    /\ Len(PersistedStack) >= 2
    /\ Len(lastOp.returned) <= Len(lastOp.loaded)
    /\ \E i \in 1..Len(lastOp.loaded) :
          /\ lastOp.loaded[i].type = lastOp.item.type
          /\ lastOp.loaded[i].id = lastOp.item.id
          /\ lastOp.loaded[i].name # lastOp.item.name

(***************************************************************************)
(* C35. Logout is not undone by an in-flight operation: when a navigation  *)
(* mutation or a synchronizer operation writes the snapshot after          *)
(* clearAllData of a logout has written it, having read the snapshot       *)
(* before or after that write, and nothing else is in flight, the          *)
(* persisted Application Snapshot is the cleared one (empty events, teams  *)
(* and registrations, auth.isAuthenticated = false, navigationStack        *)
(* [dashboard]) apart from the single property that operation assigns.     *)
(***************************************************************************)
C35_LogoutNotUndone ==
    [][ \A task \in tasks :
            (/\ task.pc = "saveData" /\ task \notin tasks'
             /\ Cardinality(tasks) = 2
             /\ \E out \in tasks : out.op = "logout" /\ out.pc = "done") =>
                PersistedSnapshot' = assigned(task, loadDataFrom(saveData(clearedAppState)))
      ]_vars

(***************************************************************************)
(* C37. Tracked stack matches the focused screen after a native back: the  *)
(* user opened team B from team A and went back to A while B's load was in *)
(* flight; once the syncStackToCurrentScreen of A's focus and the          *)
(* pushToStack of B have both completed, in either order, the top of the   *)
(* persisted navigation stack is team A and team B is not on the stack.    *)
(***************************************************************************)
C37_StackMatchesFocusedScreen ==
    (/\ Cardinality(tasks) = 2
     /\ \A task \in tasks : task.pc = "done"
     /\ \E task \in tasks : task.op = "syncStackToCurrentScreen"
     /\ \E task \in tasks :
           /\ task.op = "pushToStack"
           /\ Len(task.newStack) >= 2
           /\ task.newStack[Len(task.newStack)].id = "B"
           /\ task.newStack[Len(task.newStack) - 1].id = "A") =>
        /\ PersistedStack[Len(PersistedStack)].type = "team"
        /\ PersistedStack[Len(PersistedStack)].id = "A"
        /\ \A i \in 1..Len(PersistedStack) : PersistedStack[i].id # "B"

(***************************************************************************)
(* C36. The denormalized auth copy tracks the Session: in every state      *)
(* reached by saving the Session of a login, clearing the data of a logout *)
(* and snapshot-mutating operations, the auth property of the snapshot     *)
(* loadData returns, which is the one the next saveData writes back,       *)
(* agrees with the persisted Session on isAuthenticated, user and token.   *)
(***************************************************************************)
C36_AuthCopyTracksSession ==
    /\ loadData.auth.isAuthenticated = PersistedSession.isAuthenticated
    /\ loadData.auth.user = PersistedSession.user
    /\ loadData.auth.token = PersistedSession.token

(***************************************************************************)
(* C38. Authenticated operations send credentials: every remote request    *)
(* issued by an operation that passed the authentication precondition      *)
(* (createEvent, createTeam, getTeams, registerForEvent, joinTeam,         *)
(* getRegistrations) carries the header Authorization: Bearer <stored      *)
(* token>; no such request is sent without it when the stored token is     *)
(* expired.                                                                *)
(***************************************************************************)
C38_AuthenticatedOpsSendCredentials ==
    (lastOp.op \in AuthenticatedOps /\ lastOp.request.sent) =>
        lastOp.header = Bearer(PersistedSession.token)

\* The payload has no usable expiry: neither exp nor expires_at, exp equal
\* to 0 with no expires_at, or an expiry string that is not a valid date.
NoUsableExpiry(payload) ==
    \/ payload.exp = Undef /\ payload.expires_at = Undef
    \/ payload.exp = Num(0) /\ payload.expires_at = Undef
    \/ payload.exp.t = "string" /\ DateSeconds(payload.exp.s) = NaN
    \/ /\ payload.exp = Undef
       /\ payload.expires_at.t = "string"
       /\ DateSeconds(payload.expires_at.s) = NaN

(***************************************************************************)
(* C39. Expiry check fails closed on unusable expiry: for every decodable  *)
(* token whose payload has no usable expiry, isTokenExpired returns true   *)
(* (so that getAuthHeader, which sends the token exactly when              *)
(* isTokenExpired returns false, returns the empty object).                *)
(***************************************************************************)
C39_ExpiryFailsClosed ==
    (lastOp.op = "isTokenExpired" /\ lastOp.token.kind = "object"
        /\ NoUsableExpiry(lastOp.token.payload)) => lastOp.expired

====
